---------------------------- MODULE Spec2Model ----------------------------
(***************************************************************************)
(* A model of the VRC-RoboScore image-to-count pipeline:                   *)
(*   image_scaler.py   ImageScaler (resolution normalizer)                 *)
(*   color_mapper.py   analyze_white_tape (occlusion locator),             *)
(*                     calculate_median_height, process_tape_regions       *)
(*                     (occlusion interpolator / rasterizer)               *)
(*   new_detection.py  BallDetector: _calculate_resolution_scaled_params,  *)
(*                     detect_balls (watershed segmentation)               *)
(*   quantize_to_detection.py  the batch loops of process_directory, main, *)
(*                     ImageProcessor.__init__, the colour profiles and    *)
(*                     the detection summary of process_image              *)
(* Each component but the batch loops is a pure function of its arguments; *)
(* it is modelled as an operator, applied by one action to inputs that     *)
(* Init draws from bounded sets.  One specification per component keeps    *)
(* the state spaces apart: SpecScaler, SpecPair, SpecTape, SpecRegions,    *)
(* SpecInterp, SpecMedian, SpecSample, SpecMismatch, SpecParams,           *)
(* SpecShared, SpecDetect, SpecDebug, SpecBatch, SpecProcessor,            *)
(* SpecProfile, SpecSummary; Spec is their union.                          *)
(***************************************************************************)
EXTENDS Integers, Sequences, FiniteSets

VARIABLES
    pc,            \* which call is pending / what it produced
    img_width,     \* ImageScaler.scale_image: img.size[0]
    img_height,    \* ImageScaler.scale_image: img.size[1]
    new_size,      \* <<new_width, new_height>> handed to img.resize
    width,         \* number of columns of the profiles
    max_height,    \* max over the three profiles, as the callers compute it
    white_counts,  \* reference (white) profile given to analyze_white_tape
    counts,        \* ball-colour profile given to process_tape_regions
    tape_edges,    \* <<<<l1, r1>>, <<l2, r2>>>> returned by analyze_white_tape
    export_array,  \* grid returned by process_tape_regions(for_export=True)
    tape_region,   \* trapezoid loop: <<left_tape_left, left_tape_right>>
    ref_heights,   \* trapezoid loop: <<left_ref_height, left_right_height>>
    heights,       \* trapezoid loop: the value of height at each column visited
    image_shape,   \* BallDetector: <<height, width>> of the grid given to it
    params,        \* BallDetector.params
    scaled_params, \* result of _calculate_resolution_scaled_params
    color_map,     \* BallDetector.detect_balls: the grid, one value per pixel
    markers,       \* BallDetector.detect_balls: markers after cv2.watershed
    centers,       \* BallDetector.detect_balls: the list of centers returned
    listing,       \* batch loops: os.listdir(input_dir), one record per entry
    enable_scaling,\* batch loops: whether the scaling step is run
    position,      \* batch loops: number of entries the for loop has taken
    attempted,     \* batch loops: per entry, how often its processing was begun
    image_count,   \* process_directory: image_count
    red_array,     \* ImageProcessor: the image self.red_array and self.blue_array
                   \* were built from (0: the attributes do not exist)
    reported,      \* batch loops: per entry, the image whose arrays the centers
                   \* reported for it were detected in (0: none reported)
    sample,        \* calculate_median_height: <<start, end>>
    median,        \* calculate_median_height: the value returned
    ref_width,     \* reference sampling: width given to process_tape_regions
    ref_region,    \* reference sampling: <<left_edge, right_edge>> of one region
    ref_ranges,    \* reference sampling: the two slices <<start, end>> sampled
    heap,          \* the dict objects of new_detection: name of object -> entries
    detector_params, \* per BallDetector instance, the object self.params refers to
    call,          \* the latest call on a detector: [kind, detector, shape]
    calls,         \* number of calls made so far
    returned,      \* the scaled_params of the latest call, nested dict included
    scalers,       \* two ImageScaler instances: [scale_factor, min_width] each
    new_sizes,     \* the size each of the two instances resized the image to
    debug_output,  \* new_detection.PRINT_DEBUG_OUTPUT
    instances,     \* number of BallDetector instances constructed
    printed,       \* whether the latest detect_balls call printed debug lines
    results,       \* per detect_balls call: the flag it ran under, the centers
    pixels,        \* process_image: the RGB image, pixels[y][x]
    rounding,      \* how the float unit settles a comparison of equal quotients
    color_counts,  \* red_counts, blue_counts and white_counts per column
    tallest,       \* process_image: max_height of the three profiles
    processor,     \* the ImageProcessor: constructor arguments and attributes
    filenames,     \* os.listdir(self.input_dir): whether each name is an image
    visited,       \* number of names the for loop has passed
    scaling_steps, \* per name, how step 1 of the try block went
    filename,      \* process_image: the base name, a sequence of characters
    found,         \* <<len(red_centers), len(blue_centers)>>
    summary        \* what the detection summary prints

scalerVars == <<img_width, img_height, new_size>>

tapeVars == <<width, max_height, white_counts, counts, tape_edges, export_array>>

interpVars == <<tape_region, ref_heights, heights>>

paramsVars == <<image_shape, params, scaled_params>>

detectVars == <<color_map, markers, centers>>

batchVars ==
    <<listing, enable_scaling, position, attempted, image_count, red_array, reported>>

medianVars == <<sample, median>>

sampleVars == <<ref_width, ref_region, ref_ranges>>

sharedVars == <<heap, detector_params, call, calls, returned>>

pairVars == <<scalers, new_sizes>>

debugVars == <<debug_output, instances, printed, results>>

profileVars == <<pixels, rounding, color_counts, tallest>>

processorVars == <<processor, filenames, visited, scaling_steps>>

summaryVars == <<filename, found, summary>>

vars ==
    <<pc, scalerVars, tapeVars, interpVars, paramsVars, detectVars, batchVars,
      medianVars, sampleVars, sharedVars, pairVars, debugVars, profileVars,
      processorVars, summaryVars>>

(***************************************************************************)
(* Bounds of the model.                                                    *)
(***************************************************************************)
MaxImageWidth == 50000
MaxImageHeight == 3
MaxTapeWidth == 7
MaxRegionWidth == 5
MaxCount == 2
MaxBallCount == 2
MaxHeight == 5
MaxLeftEdge == 2
MaxSpan == 6
MaxEstimate == 7
MaxWidthStep == 21
MaxHeightStep == 5
MaxGridWidth == 4
MaxGridHeight == 7
MaxFiles == 3
MaxMismatchWidth == 3
MaxMedianWidth == 4
MaxSampleWidth == 4
MaxSampleStep == 4
MaxEdgeOffset == 4
MaxDetectors == 3
MaxCalls == 3
MaxPairStep == 4
MaxPixelHeight == 2
MaxPixelWidth == 2
MaxDigits == 1
MaxFound == 2

(***************************************************************************)
(* Arithmetic helpers.                                                     *)
(***************************************************************************)
Min(a, b) == IF a <= b THEN a ELSE b

Max(a, b) == IF a >= b THEN a ELSE b

RECURSIVE Pow2(_)
Pow2(k) == IF k <= 0 THEN 1 ELSE 2 * Pow2(k - 1)

\* int.bit_length(): number of binary digits of n >= 0
RECURSIVE BitLen(_)
BitLen(n) == IF n <= 0 THEN 0 ELSE 1 + BitLen(n \div 2)

IsPow2(n) == n >= 1 /\ Pow2(BitLen(n) - 1) = n

\* 2^e mod d, by repeated doubling (no intermediate exceeds 2*d)
RECURSIVE Pow2Mod(_, _)
Pow2Mod(e, d) == IF e <= 0 THEN 1 % d ELSE (2 * Pow2Mod(e - 1, d)) % d

(***************************************************************************)
(* Python floats (IEEE-754 doubles) for the arithmetic of new_detection.py *)
(* where several roundings follow one another.  A positive double is a     *)
(* pair <<M, e>> that stands for M * 2^e, M a natural number of at most 53 *)
(* bits (54 when a rounding carried into 2^53).  Natural numbers too large *)
(* for one integer are sequences of limbs, least significant first.        *)
(***************************************************************************)
LimbBits == 15

Base == 32768

Precision == 53

\* the limbs of a natural number below Base * Base
BigOfInt(n) == <<n % Base, n \div Base>>

RECURSIVE BigToInt(_)
BigToInt(a) == IF a = <<>> THEN 0 ELSE a[1] + Base * BigToInt(Tail(a))

RECURSIVE BigAddFrom(_, _, _, _)
BigAddFrom(a, b, i, carry) ==
    IF i > Len(a) /\ i > Len(b)
    THEN IF carry = 0 THEN <<>> ELSE <<carry>>
    ELSE LET t == (IF i <= Len(a) THEN a[i] ELSE 0)
                  + (IF i <= Len(b) THEN b[i] ELSE 0) + carry
         IN  <<t % Base>> \o BigAddFrom(a, b, i + 1, t \div Base)

BigAdd(a, b) == BigAddFrom(a, b, 1, 0)

\* a * k for a multiplier k below Base
RECURSIVE BigMulSmallFrom(_, _, _, _)
BigMulSmallFrom(a, k, i, carry) ==
    IF i > Len(a)
    THEN IF carry = 0 THEN <<>> ELSE <<carry>>
    ELSE LET t == a[i] * k + carry
         IN  <<t % Base>> \o BigMulSmallFrom(a, k, i + 1, t \div Base)

BigMulSmall(a, k) == BigMulSmallFrom(a, k, 1, 0)

RECURSIVE BigMulFrom(_, _, _)
BigMulFrom(a, b, j) ==
    IF j > Len(b) THEN <<>>
    ELSE BigAdd([i \in 1..(j - 1) |-> 0] \o BigMulSmall(a, b[j]),
                BigMulFrom(a, b, j + 1))

BigMul(a, b) == BigMulFrom(a, b, 1)

\* floor(a / d) and a mod d for a divisor d below Base: <<quotient, remainder>>
RECURSIVE BigDivSmallFrom(_, _, _, _)
BigDivSmallFrom(a, d, i, rem) ==
    IF i = 0 THEN <<<<>>, rem>>
    ELSE LET t    == rem * Base + a[i]
             rest == BigDivSmallFrom(a, d, i - 1, t % d)
         IN  <<rest[1] \o <<t \div d>>, rest[2]>>

BigDivSmall(a, d) == BigDivSmallFrom(a, d, Len(a), 0)

\* index of the most significant non-zero limb, 0 for the number 0
RECURSIVE BigTop(_, _)
BigTop(a, i) == IF i = 0 THEN 0 ELSE IF a[i] # 0 THEN i ELSE BigTop(a, i - 1)

BigBitLen(a) ==
    LET top == BigTop(a, Len(a))
    IN  IF top = 0 THEN 0 ELSE (top - 1) * LimbBits + BitLen(a[top])

\* bit n of a (bit 0 is the least significant)
BigBit(a, n) ==
    LET i == n \div LimbBits + 1
    IN  IF i > Len(a) THEN 0 ELSE (a[i] \div Pow2(n % LimbBits)) % 2

\* whether the n least significant bits of a are all 0
BigLowZero(a, n) ==
    /\ \A i \in 1..Len(a) : i <= n \div LimbBits => a[i] = 0
    /\ n \div LimbBits + 1 <= Len(a)
           => a[n \div LimbBits + 1] % Pow2(n % LimbBits) = 0

\* floor(a / 2^n)
BigShr(a, n) ==
    LET ls == n \div LimbBits
        bs == n % LimbBits
    IN  [i \in 1..(Len(a) - ls) |->
            a[i + ls] \div Pow2(bs)
            + (IF i + ls + 1 <= Len(a)
               THEN (a[i + ls + 1] % Pow2(bs)) * Pow2(LimbBits - bs)
               ELSE 0)]

(***************************************************************************)
(* Round X * 2^e to the nearest double, ties to the even significand;      *)
(* sticky says that the exact value lies strictly above X * 2^e (a         *)
(* division left a remainder).                                             *)
(***************************************************************************)
RoundBig(X, sticky, e) ==
    LET n == BigBitLen(X) - Precision
    IN  IF n <= 0 THEN <<X, e>>
        ELSE LET q    == BigShr(X, n)
                 half == BigBit(X, n - 1) = 1
                 low  == sticky \/ ~BigLowZero(X, n - 1)
                 up   == half /\ (low \/ q[1] % 2 = 1)
             IN  <<IF up THEN BigAdd(q, <<1>>) ELSE q, e + n>>

\* the double a / b for integers 1 <= a < Base * Base and 1 <= b < Base:
\* the quotient of a * 2^75 by b has more than 53 bits
FloatDiv(a, b) ==
    LET qr == BigDivSmall(<<0, 0, 0, 0, 0>> \o BigOfInt(a), b)
    IN  RoundBig(qr[1], qr[2] # 0, -(5 * LimbBits))

\* the double k * x for an integer 1 <= k < Base
FloatMulInt(k, x) == RoundBig(BigMulSmall(x[1], k), FALSE, x[2])

\* the double x * y
FloatMul(x, y) == RoundBig(BigMul(x[1], y[1]), FALSE, x[2] + y[2])

\* int(x) for a double 0 < x < Base * Base
FloatTrunc(x) ==
    IF x[2] >= 0 THEN BigToInt(x[1]) * Pow2(x[2])
    ELSE BigToInt(BigShr(x[1], -x[2]))

(***************************************************************************)
(* image_scaler.py                                                         *)
(***************************************************************************)
\* self.min_width = 1000
min_width == 1000

(***************************************************************************)
(* calculate_scale_factor: the while loop that raises scale_divisor while  *)
(* original_width / (scale_divisor + 1) >= min_width.  The quotient is a   *)
(* correctly rounded double; min_width is an integer, so the comparison    *)
(* agrees with the exact one, w >= min_width * (d + 1).                    *)
(***************************************************************************)
RECURSIVE ScaleDivisorLoop(_, _)
ScaleDivisorLoop(original_width, scale_divisor) ==
    IF original_width >= min_width * (scale_divisor + 1)
    THEN ScaleDivisorLoop(original_width, scale_divisor + 1)
    ELSE scale_divisor

\* a divisor loop that runs one step too far
ScaleDivisorOffByOne(original_width) ==
    ScaleDivisorLoop(original_width, 1) + 1

\* the divisor d for which calculate_scale_factor returns 1.0 / d
ScaleDivisor(original_width) == ScaleDivisorLoop(original_width, 1)

(***************************************************************************)
(* The double 1.0 / d is M / 2^E with M the 53-bit integer nearest to      *)
(* 2^E / d (E = 52 + bit_length(d) when d is no power of two).             *)
(* RecipErr(d) = d * M - 2^E: zero when 1.0 / d is exact, negative when    *)
(* the double lies below 1/d, positive when above.                         *)
(***************************************************************************)
RecipErr(d) ==
    IF IsPow2(d) THEN 0
    ELSE LET rho == Pow2Mod(52 + BitLen(d), d)
         IN  IF 2 * rho < d THEN -rho ELSE d - rho

(***************************************************************************)
(* int(n * (1.0 / d)) for integers n >= 0, d >= 1 (both below 2^20), in    *)
(* IEEE-754 double arithmetic with round-to-nearest-even.                  *)
(* The product before rounding is (n/d) * (1 + err / 2^E).  With q = n     *)
(* div d: if d does not divide n the product is at least 1/d away from     *)
(* every integer and truncates to q.  If d divides n and err < 0 the       *)
(* product lies q * |err| / 2^E below q, and it rounds to a double below   *)
(* q exactly when that distance exceeds half the spacing of the doubles    *)
(* just below q (2^(bit_length(q) - 53), halved when q is a power of two); *)
(* a tie rounds to q, whose significand is even.                           *)
(***************************************************************************)
TruncScaled(n, d) ==
    LET q   == n \div d
        err == RecipErr(d)
        sh  == BitLen(q) + BitLen(d) - (IF IsPow2(q) THEN 2 ELSE 1)
    IN  IF n % d = 0 /\ err < 0 /\ q > 0 /\ 2 * q * (-err) > Pow2(sh)
        THEN q - 1
        ELSE q

\* scale_image, lines 38-40: new_width = int(width * actual_scale), same for height
NewSize(w, h) ==
    LET d == ScaleDivisor(w)
    IN  <<TruncScaled(w, d), TruncScaled(h, d)>>

ScalerIdle ==
    /\ img_width = 0
    /\ img_height = 0
    /\ new_size = <<0, 0>>

TypeIdle ==
    /\ width = 0
    /\ max_height = 0
    /\ white_counts = <<>>
    /\ counts = <<>>
    /\ tape_edges = <<>>
    /\ export_array = <<>>

InterpIdle ==
    /\ tape_region = <<>>
    /\ ref_heights = <<>>
    /\ heights = <<>>

ParamsIdle ==
    /\ image_shape = <<>>
    /\ params = <<>>
    /\ scaled_params = <<>>

DetectIdle ==
    /\ color_map = <<>>
    /\ markers = <<>>
    /\ centers = <<>>

BatchIdle ==
    /\ listing = <<>>
    /\ enable_scaling = FALSE
    /\ position = 0
    /\ attempted = <<>>
    /\ image_count = 0
    /\ red_array = 0
    /\ reported = <<>>

MedianIdle ==
    /\ sample = <<>>
    /\ median = 0

SampleIdle ==
    /\ ref_width = 0
    /\ ref_region = <<>>
    /\ ref_ranges = <<>>

SharedIdle ==
    /\ heap = <<>>
    /\ detector_params = <<>>
    /\ call = <<>>
    /\ calls = 0
    /\ returned = <<>>

PairIdle ==
    /\ scalers = <<>>
    /\ new_sizes = <<>>

DebugIdle ==
    /\ debug_output = FALSE
    /\ instances = 0
    /\ printed = FALSE
    /\ results = <<>>

ProfileIdle ==
    /\ pixels = <<>>
    /\ rounding = <<>>
    /\ color_counts = <<>>
    /\ tallest = 0

ProcessorIdle ==
    /\ processor = <<>>
    /\ filenames = <<>>
    /\ visited = 0
    /\ scaling_steps = <<>>

SummaryIdle ==
    /\ filename = <<>>
    /\ found = <<0, 0>>
    /\ summary = <<>>

\* a call of one component leaves the state of the others untouched
\* (detect_balls calls _calculate_resolution_scaled_params)
IdleExcept(component) ==
    /\ IF component \notin {"params", "detect", "debug"} THEN ParamsIdle ELSE TRUE
    /\ IF component \notin {"detect", "debug"} THEN DetectIdle ELSE TRUE
    /\ IF component # "debug" THEN DebugIdle ELSE TRUE
    /\ IF component # "profile" THEN ProfileIdle ELSE TRUE
    /\ IF component # "processor" THEN ProcessorIdle ELSE TRUE
    /\ IF component # "summary" THEN SummaryIdle ELSE TRUE
    /\ IF component \notin {"scaler", "pair"} THEN ScalerIdle ELSE TRUE
    /\ IF component # "pair" THEN PairIdle ELSE TRUE
    /\ IF component \notin {"tape", "median"} THEN TypeIdle ELSE TRUE
    /\ IF component # "median" THEN MedianIdle ELSE TRUE
    /\ IF component # "sample" THEN SampleIdle ELSE TRUE
    /\ IF component # "shared" THEN SharedIdle ELSE TRUE
    /\ IF component # "interp" THEN InterpIdle ELSE TRUE
    /\ IF component # "batch" THEN BatchIdle ELSE TRUE

FrameExcept(component) ==
    /\ IF component \notin {"params", "detect", "debug"}
       THEN UNCHANGED paramsVars ELSE TRUE
    /\ IF component \notin {"detect", "debug"} THEN UNCHANGED detectVars ELSE TRUE
    /\ IF component # "debug" THEN UNCHANGED debugVars ELSE TRUE
    /\ IF component # "profile" THEN UNCHANGED profileVars ELSE TRUE
    /\ IF component # "processor" THEN UNCHANGED processorVars ELSE TRUE
    /\ IF component # "summary" THEN UNCHANGED summaryVars ELSE TRUE
    /\ IF component \notin {"scaler", "pair"} THEN UNCHANGED scalerVars ELSE TRUE
    /\ IF component # "pair" THEN UNCHANGED pairVars ELSE TRUE
    /\ IF component \notin {"tape", "median"} THEN UNCHANGED tapeVars ELSE TRUE
    /\ IF component # "median" THEN UNCHANGED medianVars ELSE TRUE
    /\ IF component # "sample" THEN UNCHANGED sampleVars ELSE TRUE
    /\ IF component # "shared" THEN UNCHANGED sharedVars ELSE TRUE
    /\ IF component # "interp" THEN UNCHANGED interpVars ELSE TRUE
    /\ IF component # "batch" THEN UNCHANGED batchVars ELSE TRUE

\* image heights: multiples of 147, tall enough that no divisor up to
\* MaxImageWidth div min_width scales them to a height of 0
ImageHeights == {147 * k : k \in 1..MaxImageHeight}

InitScaler ==
    /\ pc = "scale_image"
    /\ img_width \in 1..MaxImageWidth
    /\ img_height \in ImageHeights
    /\ new_size = <<0, 0>>
    /\ IdleExcept("scaler")

\* ImageScaler.scale_image: open, compute the size, resize, save
ScaleImage ==
    /\ pc = "scale_image"
    /\ new_size' = NewSize(img_width, img_height)
    /\ pc' = "scaled"
    /\ UNCHANGED <<img_width, img_height>>
    /\ FrameExcept("scaler")

NextScaler == ScaleImage

SpecScaler == InitScaler /\ [][NextScaler]_vars

(***************************************************************************)
(* Two ImageScaler instances, constructed with different scale factors     *)
(* (in hundredths), scale the same image.                                  *)
(***************************************************************************)
\* ImageScaler(scale_factor): self.scale_factor = scale_factor, self.min_width = 1000
ImageScaler(factor) == [scale_factor |-> factor, min_width |-> min_width]

\* a scale_image that multiplies the size by self.scale_factor
scale_image_ByFactor(scaler, w, h) ==
    <<(w * scaler.scale_factor) \div 100, (h * scaler.scale_factor) \div 100>>

\* the size scaler.scale_image resizes a w x h image to: actual_scale comes
\* from calculate_scale_factor(width), which reads self.min_width only
scale_image(scaler, w, h) == NewSize(w, h)

\* the default 0.25 of the orchestrator and of ImageScaler, and other --scale values
ScaleFactors == {10, 25, 50, 100, 200}

\* image widths at both ends of each range of widths that share a divisor
PairWidths ==
    {1000 * k + o : k \in 0..MaxPairStep, o \in {1, 999}}

InitPair ==
    /\ pc = "scale_both"
    /\ img_width \in PairWidths
    /\ img_height \in ImageHeights
    /\ new_size = <<0, 0>>
    /\ \E f1, f2 \in ScaleFactors :
          /\ f1 # f2
          /\ scalers = <<ImageScaler(f1), ImageScaler(f2)>>
    /\ new_sizes = <<>>
    /\ IdleExcept("pair")

\* scale_image of both instances on the same input image
ScaleBoth ==
    /\ pc = "scale_both"
    /\ new_sizes' = [i \in {1, 2} |-> scale_image(scalers[i], img_width, img_height)]
    /\ pc' = "scaled_both"
    /\ UNCHANGED <<scalerVars, scalers>>
    /\ FrameExcept("pair")

NextPair == ScaleBoth

SpecPair == InitPair /\ [][NextPair]_vars

C2_OutputWidthRespectsFloor ==
    pc = "scaled" =>
        /\ (img_width >= min_width => new_size[1] >= min_width)
        /\ (img_width < min_width => new_size[1] = img_width)

(***************************************************************************)
(* C3: for w >= min_width the divisor is d = floor(w / min_width), the     *)
(* largest d with w / d >= min_width, and the image is resized to          *)
(* floor(w / d) x floor(h / d).                                            *)
(***************************************************************************)
C3_DivisorAndSize ==
    pc = "scaled" /\ img_width >= min_width =>
        LET d == img_width \div min_width
        IN  /\ ScaleDivisor(img_width) = d
            /\ new_size = <<img_width \div d, img_height \div d>>

\* the widths floor(w / d), d >= 1, that are still >= min_width
\* (a divisor above w div min_width + 1 gives a width below min_width)
WidthCandidates(w) ==
    {w \div d : d \in {e \in 1..(w \div min_width + 1) : w \div e >= min_width}}

SetMax(S) == CHOOSE m \in S : \A s \in S : s <= m

SetMin(S) == CHOOSE m \in S : \A s \in S : m <= s

left_start == 25
left_end == 45
right_start == 55
right_end == 75
height_threshold == 20

(***************************************************************************)
(* int(n * 0.25), int(n * 0.45), int(n * 0.55), int(n * 0.75) and          *)
(* int(n * 0.20): each of these double constants lies at or just above     *)
(* its decimal value, so the truncated product is floor(n * percent /      *)
(* 100) (it agrees with the double computation for every n up to 200000).  *)
(***************************************************************************)
IntPercent(n, percent) == (n * percent) \div 100

HeightThreshold(mh) == IntPercent(mh, height_threshold)

\* the key of max(): counts[x] if counts[x] > height_threshold else 0
PeakKey(c, thr, x) == IF c[x] > thr THEN c[x] ELSE 0

\* a peak search that keeps the last of several maximal columns
PeakRightmost(c, thr, a, b) ==
    CHOOSE x \in a..(b - 1) :
        /\ \A y \in a..(b - 1) : PeakKey(c, thr, y) <= PeakKey(c, thr, x)
        /\ \A y \in (x + 1)..(b - 1) : PeakKey(c, thr, y) < PeakKey(c, thr, x)

\* a peak search that ignores the profile and takes the zone's first column
PeakFirstColumn(c, thr, a, b) == a

(***************************************************************************)
(* max(range(a, b), key=...): the first column of the zone whose key is    *)
(* maximal.  Evaluated only for a non-empty range.                         *)
(***************************************************************************)
Peak(c, thr, a, b) ==
    CHOOSE x \in a..(b - 1) :
        /\ \A y \in a..(b - 1) : PeakKey(c, thr, y) <= PeakKey(c, thr, x)
        /\ \A y \in a..(x - 1) : PeakKey(c, thr, y) < PeakKey(c, thr, x)

\* the expansion test with >= instead of >
StaysAboveInclusive(c, thr, x) == c[x] >= thr

\* the loop condition of both while loops: counts[edge] > height_threshold
StaysAbove(c, thr, x) == c[x] > thr

\* while left_edge > 0 and counts[left_edge] > height_threshold: left_edge -= 1
RECURSIVE GoLeft(_, _, _)
GoLeft(c, thr, e) ==
    IF e > 0 /\ StaysAbove(c, thr, e) THEN GoLeft(c, thr, e - 1) ELSE e

\* while right_edge < width - 1 and counts[right_edge] > height_threshold: right_edge += 1
RECURSIVE GoRight(_, _, _, _)
GoRight(c, w, thr, e) ==
    IF e < w - 1 /\ StaysAbove(c, thr, e) THEN GoRight(c, w, thr, e + 1) ELSE e

\* find_tape_edges without the leftward loop
find_tape_edges_NoLeft(c, w, thr, peak_pos) ==
    <<peak_pos, GoRight(c, w, thr, peak_pos)>>

\* find_tape_edges with the left edge taken one column further out
find_tape_edges_Wide(c, w, thr, peak_pos) ==
    <<Max(0, GoLeft(c, thr, peak_pos) - 1), GoRight(c, w, thr, peak_pos)>>

find_tape_edges(c, w, thr, peak_pos) ==
    <<GoLeft(c, thr, peak_pos), GoRight(c, w, thr, peak_pos)>>

\* the two search zones, each <<start, end>> (end exclusive)
LeftZone(w) == <<IntPercent(w, left_start), IntPercent(w, left_end)>>

RightZone(w) == <<IntPercent(w, right_start), IntPercent(w, right_end)>>

\* max() of an empty range raises ValueError
ZonesNonEmpty(w) ==
    /\ LeftZone(w)[1] < LeftZone(w)[2]
    /\ RightZone(w)[1] < RightZone(w)[2]

LeftPeak(c, w, mh) ==
    Peak(c, HeightThreshold(mh), LeftZone(w)[1], LeftZone(w)[2])

RightPeak(c, w, mh) ==
    Peak(c, HeightThreshold(mh), RightZone(w)[1], RightZone(w)[2])

\* the value analyze_white_tape returns when it returns
analyze_white_tape(c, w, mh) ==
    <<find_tape_edges(c, w, HeightThreshold(mh), LeftPeak(c, w, mh)),
      find_tape_edges(c, w, HeightThreshold(mh), RightPeak(c, w, mh))>>

Profiles(w, top) == [0..(w - 1) -> 0..top]

InitTape ==
    /\ pc = "analyze_white_tape"
    /\ width \in 1..MaxTapeWidth
    /\ max_height \in 1..MaxHeight
    /\ white_counts \in Profiles(width, Min(MaxCount, max_height))
    /\ tape_edges = <<>>
    /\ counts = <<>>
    /\ export_array = <<>>
    /\ IdleExcept("tape")

\* analyze_white_tape(white_counts, width, max_height) returns or raises
AnalyzeWhiteTape ==
    /\ pc = "analyze_white_tape"
    /\ IF ZonesNonEmpty(width)
       THEN /\ tape_edges' = analyze_white_tape(white_counts, width, max_height)
            /\ pc' = "analyzed"
       ELSE /\ tape_edges' = <<>>
            /\ pc' = "ValueError"
    /\ UNCHANGED <<width, max_height, white_counts, counts, export_array>>
    /\ FrameExcept("tape")

NextTape == AnalyzeWhiteTape

SpecTape == InitTape /\ [][NextTape]_vars

Regions == {1, 2}

SeedOf(i) ==
    IF i = 1 THEN LeftPeak(white_counts, width, max_height)
    ELSE RightPeak(white_counts, width, max_height)

SeedAbove(i) == white_counts[SeedOf(i)] > HeightThreshold(max_height)

(***************************************************************************)
(* C5 as stated: each returned region satisfies                            *)
(* 0 <= left_edge < right_edge <= width, also when no column of the search *)
(* zone exceeds the height threshold.                                      *)
(***************************************************************************)
C5_RegionStrict ==
    pc = "analyzed" =>
        \A i \in Regions :
            /\ 0 <= tape_edges[i][1]
            /\ tape_edges[i][1] < tape_edges[i][2]
            /\ tape_edges[i][2] <= width

(***************************************************************************)
(* C5 amended: each returned region satisfies                              *)
(* 0 <= left_edge <= right_edge <= width - 1; left_edge < right_edge       *)
(* exactly when the zone's seed column exceeds the height threshold, and   *)
(* otherwise the region is the degenerate pair (seed, seed).               *)
(***************************************************************************)
C5_RegionBounds ==
    pc = "analyzed" =>
        \A i \in Regions :
            /\ 0 <= tape_edges[i][1]
            /\ tape_edges[i][1] <= tape_edges[i][2]
            /\ tape_edges[i][2] <= width - 1
            /\ (tape_edges[i][1] < tape_edges[i][2]) <=> SeedAbove(i)
            /\ ~SeedAbove(i) => tape_edges[i] = <<SeedOf(i), SeedOf(i)>>

\* one zone without any column above a positive threshold, the other with a tape
C5_Witness ==
    /\ pc = "analyzed"
    /\ HeightThreshold(max_height) >= 1
    /\ ~SeedAbove(1)
    /\ white_counts[SeedOf(1)] >= 1
    /\ SeedAbove(2)
    /\ tape_edges[2][2] - tape_edges[2][1] >= 2

C7_NeverRaises ==
    pc # "analyze_white_tape" => pc = "analyzed" /\ Len(tape_edges) = 2

\* spans [a, b) with a < b lying inside the zone z
SpansIn(z) == {s \in (z[1]..z[2]) \X (z[1]..z[2]) : s[1] < s[2]}

InSpan(x, s) == s[1] <= x /\ x < s[2]

\* all-zero inside the two spans, above the threshold everywhere else
IsGapProfile(c, w, thr, s1, s2) ==
    \A x \in 0..(w - 1) :
        IF InSpan(x, s1) \/ InSpan(x, s2) THEN c[x] = 0 ELSE c[x] > thr

\* above the threshold inside the two spans, zero everywhere else
IsTapeProfile(c, w, thr, s1, s2) ==
    \A x \in 0..(w - 1) :
        IF InSpan(x, s1) \/ InSpan(x, s2) THEN c[x] > thr ELSE c[x] = 0

(***************************************************************************)
(* C8 as stated: for a profile with two all-zero gaps, one inside each     *)
(* search zone, the returned regions are exactly the gaps' edges.          *)
(***************************************************************************)
C8_GapEdges ==
    pc = "analyzed" =>
        \A s1 \in SpansIn(LeftZone(width)), s2 \in SpansIn(RightZone(width)) :
            IsGapProfile(white_counts, width, HeightThreshold(max_height), s1, s2)
                => tape_edges = <<s1, s2>>

(***************************************************************************)
(* C8 amended: for a profile that is zero except for two raised spans      *)
(* [a1, b1) and [a2, b2) (every value above the threshold), one inside     *)
(* each search zone and with a zero column between them, the returned      *)
(* regions are (max(a1 - 1, 0), b1) and (max(a2 - 1, 0), b2): left_edge is *)
(* the last column before the span, right_edge the first column after it.  *)
(***************************************************************************)
C8_TapeEdges ==
    pc = "analyzed" =>
        \A s1 \in SpansIn(LeftZone(width)), s2 \in SpansIn(RightZone(width)) :
            /\ s1[2] < s2[1]
            /\ IsTapeProfile(white_counts, width, HeightThreshold(max_height), s1, s2)
            => tape_edges = <<<<Max(s1[1] - 1, 0), s1[2]>>,
                              <<Max(s2[1] - 1, 0), s2[2]>>>>

\* a two-span profile with a span wider than one column and a positive threshold
C8_Witness ==
    /\ pc = "analyzed"
    /\ HeightThreshold(max_height) >= 1
    /\ \E s1 \in SpansIn(LeftZone(width)), s2 \in SpansIn(RightZone(width)) :
          /\ s1[2] < s2[1]
          /\ s1[2] - s1[1] >= 2
          /\ s1[1] >= 1
          /\ IsTapeProfile(white_counts, width, HeightThreshold(max_height), s1, s2)

ZoneOf(i) == IF i = 1 THEN LeftZone(width) ELSE RightZone(width)

\* the columns of zone i whose value exceeds the height threshold
AboveInZone(i) ==
    {x \in ZoneOf(i)[1]..(ZoneOf(i)[2] - 1) :
        white_counts[x] > HeightThreshold(max_height)}

\* the columns of zone i that hold the largest value found above the threshold
TallestInZone(i) ==
    {x \in AboveInZone(i) :
        \A y \in AboveInZone(i) : white_counts[y] <= white_counts[x]}

(***************************************************************************)
(* C20: in analyze_white_tape the seed of a zone is the leftmost column of *)
(* maximal value among the zone's columns whose value exceeds              *)
(* int(max_height * 0.20), and the region returned is the one grown from   *)
(* it; when no column of the zone exceeds the threshold the seed is the    *)
(* zone's first column and the region returned is (seed, seed).            *)
(***************************************************************************)
C20_SeedSelection ==
    pc = "analyzed" =>
        \A i \in Regions :
            IF AboveInZone(i) = {}
            THEN /\ SeedOf(i) = ZoneOf(i)[1]
                 /\ tape_edges[i] = <<ZoneOf(i)[1], ZoneOf(i)[1]>>
            ELSE /\ SeedOf(i) = SetMin(TallestInZone(i))
                 /\ tape_edges[i] = find_tape_edges(white_counts, width,
                                                    HeightThreshold(max_height),
                                                    SetMin(TallestInZone(i)))

\* one zone holds its largest value in two columns, of which the left one
\* became the seed, and the other zone has no column above the threshold
C20_Witness ==
    /\ pc = "analyzed"
    /\ \E i, j \in Regions :
          /\ Cardinality(TallestInZone(i)) >= 2
          /\ SeedOf(i) = SetMin(TallestInZone(i))
          /\ AboveInZone(j) = {}
          /\ tape_edges[j] = <<ZoneOf(j)[1], ZoneOf(j)[1]>>

(***************************************************************************)
(* C21: for every non-degenerate region (left_edge, right_edge) returned   *)
(* by analyze_white_tape: left_edge <= seed <= right_edge, every column    *)
(* strictly between the edges has a value above the threshold, column      *)
(* left_edge has a value <= threshold or is column 0, and column           *)
(* right_edge has a value <= threshold or is column width - 1.             *)
(***************************************************************************)
C21_RegionEdges ==
    pc = "analyzed" =>
        \A i \in Regions :
            tape_edges[i][1] < tape_edges[i][2] =>
                /\ tape_edges[i][1] <= SeedOf(i)
                /\ SeedOf(i) <= tape_edges[i][2]
                /\ \A x \in (tape_edges[i][1] + 1)..(tape_edges[i][2] - 1) :
                      white_counts[x] > HeightThreshold(max_height)
                /\ \/ white_counts[tape_edges[i][1]] <= HeightThreshold(max_height)
                   \/ tape_edges[i][1] = 0
                /\ \/ white_counts[tape_edges[i][2]] <= HeightThreshold(max_height)
                   \/ tape_edges[i][2] = width - 1

\* a region of two columns above a positive threshold, ended on both sides
\* inside the image by a column that is positive but not above the threshold
C21_Witness ==
    /\ pc = "analyzed"
    /\ HeightThreshold(max_height) >= 1
    /\ \E i \in Regions :
          /\ 0 < tape_edges[i][1]
          /\ tape_edges[i][2] < width - 1
          /\ tape_edges[i][2] - tape_edges[i][1] >= 3
          /\ white_counts[tape_edges[i][1]] >= 1
          /\ white_counts[tape_edges[i][2]] >= 1

(***************************************************************************)
(* color_mapper.py: calculate_median_height, process_tape_regions          *)
(***************************************************************************)
\* a slice bound as Python and numpy normalise it for a sequence of length len
SliceIndex(i, len) == IF i < 0 THEN Max(i + len, 0) ELSE Min(i, len)

\* the indices selected by [start:stop] on a sequence of length len
SliceRange(start, stop, len) ==
    {i \in 0..(len - 1) : SliceIndex(start, len) <= i /\ i < SliceIndex(stop, len)}

\* the smallest strictly positive value instead of the middle one
calculate_median_height_Min(c, w, start, end) ==
    LET valid == {i \in SliceRange(start, end, w) : c[i] > 0}
    IN  IF valid = {} THEN 0 ELSE SetMin({c[i] : i \in valid})

(***************************************************************************)
(* calculate_median_height(counts, start, end): the strictly positive      *)
(* values of counts[start:end]; 0 when there is none, else                 *)
(* sorted(valid_heights)[len(valid_heights) // 2], the value v with at     *)
(* most len // 2 entries below it and more than len // 2 entries <= v.     *)
(***************************************************************************)
calculate_median_height(c, w, start, end) ==
    LET valid == {i \in SliceRange(start, end, w) : c[i] > 0}
        k     == Cardinality(valid) \div 2
    IN  IF valid = {} THEN 0
        ELSE CHOOSE v \in {c[i] : i \in valid} :
                 /\ Cardinality({i \in valid : c[i] < v}) <= k
                 /\ Cardinality({i \in valid : c[i] <= v}) > k

\* a call calculate_median_height(counts, start, end) on a list of width counts
InitMedian ==
    /\ pc = "calculate_median_height"
    /\ width \in 1..MaxMedianWidth
    /\ counts \in [0..(width - 1) -> 0..MaxBallCount]
    /\ sample \in (0..width) \X (0..width)
    /\ median = 0
    /\ max_height = 0
    /\ white_counts = <<>>
    /\ tape_edges = <<>>
    /\ export_array = <<>>
    /\ IdleExcept("median")

CalculateMedianHeight ==
    /\ pc = "calculate_median_height"
    /\ median' = calculate_median_height(counts, width, sample[1], sample[2])
    /\ pc' = "median"
    /\ UNCHANGED <<sample, tapeVars>>
    /\ FrameExcept("median")

NextMedian == CalculateMedianHeight

SpecMedian == InitMedian /\ [][NextMedian]_vars

\* the columns of counts[start:end] that hold a strictly positive value
PositiveInSample == {i \in sample[1]..(sample[2] - 1) : counts[i] > 0}

(***************************************************************************)
(* C22: calculate_median_height returns 0 exactly when the column range    *)
(* holds no strictly positive value; otherwise it returns a median of the  *)
(* strictly positive values: one of them, with at least half of them <= it *)
(* and at least half of them >= it.  Zeros never influence the result.     *)
(***************************************************************************)
C22_MedianOfPositive ==
    pc = "median" =>
        LET n == Cardinality(PositiveInSample)
        IN  IF n = 0
            THEN median = 0
            ELSE /\ median # 0
                 /\ \E i \in PositiveInSample : counts[i] = median
                 /\ 2 * Cardinality({i \in PositiveInSample : counts[i] <= median}) >= n
                 /\ 2 * Cardinality({i \in PositiveInSample : counts[i] >= median}) >= n

\* a range holding a zero and three positive values that are not all equal,
\* the smallest of them not being the median
C22_Witness ==
    /\ pc = "median"
    /\ Cardinality(PositiveInSample) >= 3
    /\ \E i \in sample[1]..(sample[2] - 1) : counts[i] = 0
    /\ \E i \in PositiveInSample : counts[i] < median

\* the sample range without its minimum of one column
sample_range_NoMinimum(w) == (36 * w) \div 10000

\* sample_range = max(1, int(0.0036 * width)); the truncated product is
\* floor(36 * width / 10000) for every width up to 200000
sample_range(w) == Max(1, (36 * w) \div 10000)

\* len(counts), for a list modelled as a function on 0..len-1
Length(c) == Cardinality(DOMAIN c)

\* left_ref_start and left_tape_left: the slice of the left reference
LeftSample(w, region) == <<Max(0, region[1] - sample_range(w)), region[1]>>

\* left_tape_right and left_right_end: the slice of the right reference
RightSample(w, region) == <<region[2], Min(w, region[2] + sample_range(w))>>

\* the columns of a slice <<start, end>> with 0 <= start and end <= width
SliceColumns(range) == range[1]..(range[2] - 1)

\* widths with sample_range 1, and multiples of 278, where it grows by one
\* at every second multiple
SampleWidths ==
    (1..MaxSampleWidth) \cup {278 * k : k \in 1..MaxSampleStep}

\* columns within MaxEdgeOffset of either end of the image
NearEnds(w) ==
    {x \in 0..(w - 1) : x <= MaxEdgeOffset \/ x >= w - 1 - MaxEdgeOffset}

\* the regions analyze_white_tape can return: 0 <= left <= right <= width - 1
InitSample ==
    /\ pc = "sample"
    /\ ref_width \in SampleWidths
    /\ ref_region \in {r \in NearEnds(ref_width) \X NearEnds(ref_width) : r[1] <= r[2]}
    /\ ref_ranges = <<>>
    /\ IdleExcept("sample")

\* the two slices process_tape_regions hands to calculate_median_height for
\* one region
SampleNeighbourhoods ==
    /\ pc = "sample"
    /\ ref_ranges' = <<LeftSample(ref_width, ref_region),
                       RightSample(ref_width, ref_region)>>
    /\ pc' = "sampled"
    /\ UNCHANGED <<ref_width, ref_region>>
    /\ FrameExcept("sample")

NextSample == SampleNeighbourhoods

SpecSample == InitSample /\ [][NextSample]_vars

\* the slices are [left_edge - s, left_edge) and [right_edge, right_edge + s)
\* clamped to the image, within [0, width) and outside the region
SamplesOutsideRegion ==
    LET s == Max(1, (36 * ref_width) \div 10000)
    IN  /\ SliceColumns(ref_ranges[1])
              = {x \in 0..(ref_width - 1) :
                    ref_region[1] - s <= x /\ x < ref_region[1]}
        /\ SliceColumns(ref_ranges[2])
              = {x \in 0..(ref_width - 1) :
                    ref_region[2] <= x /\ x < ref_region[2] + s}
        /\ \A k \in {1, 2} :
              /\ SliceColumns(ref_ranges[k]) \subseteq 0..(ref_width - 1)
              /\ SliceColumns(ref_ranges[k])
                    \cap (ref_region[1]..(ref_region[2] - 1)) = {}

(***************************************************************************)
(* C23 as stated: for every region and width, each of the two              *)
(* neighbourhoods sampled by process_tape_regions contains at least one    *)
(* column, lies within [0, width) and lies outside the region              *)
(* [left_edge, right_edge): they are [left_edge - s, left_edge) and        *)
(* [right_edge, right_edge + s), s = max(1, int(0.0036 * width)), clamped. *)
(***************************************************************************)
C23_NeighbourhoodsNonEmpty ==
    pc = "sampled" =>
        /\ SamplesOutsideRegion
        /\ SliceColumns(ref_ranges[1]) # {}
        /\ SliceColumns(ref_ranges[2]) # {}

(***************************************************************************)
(* C23 amended: both neighbourhoods lie within [0, width) and outside the  *)
(* region, as [left_edge - s, left_edge) and [right_edge, right_edge + s)  *)
(* clamped to the image; the right one always holds at least one column,   *)
(* the left one holds at least one column exactly when left_edge > 0 and   *)
(* is empty when left_edge = 0.                                            *)
(***************************************************************************)
C23_NeighbourhoodsOutside ==
    pc = "sampled" =>
        /\ SamplesOutsideRegion
        /\ SliceColumns(ref_ranges[2]) # {}
        /\ SliceColumns(ref_ranges[1]) # {} <=> ref_region[1] > 0

\* a region at column 0 of an image wide enough for s = 2, ending one
\* column before the last, so that the right neighbourhood is clamped
C23_Witness ==
    /\ pc = "sampled"
    /\ ref_width >= 556
    /\ ref_region[1] = 0
    /\ ref_region[2] = ref_width - 1
    /\ ref_ranges = <<<<0, 0>>, <<ref_width - 1, ref_width>>>>

\* left reference: median over counts[max(0, left - sample_range) : left]
LeftRefHeight(c, w, region) ==
    calculate_median_height(c, Length(c),
                            Max(0, region[1] - sample_range(w)), region[1])

\* right reference: median over counts[right : min(width, right + sample_range)]
RightRefHeight(c, w, region) ==
    calculate_median_height(c, Length(c),
                            region[2], Min(w, region[2] + sample_range(w)))

\* the interpolation with progress taken one column ahead
InterpHeightProgressAhead(L, R, region, x) ==
    LET n == region[2] - region[1]
    IN  (L * n + (x - region[1] + 1) * (R - L)) \div n

(***************************************************************************)
(* height = int(left + progress * (right - left)) with                     *)
(* progress = (x - left_edge) / (right_edge - left_edge).  The value is    *)
(* positive, so int() is the floor of the exact rational; the double       *)
(* computation agrees with it for every region narrower than 22 columns    *)
(* (it first departs at width 22, x - left_edge = 15, heights 1 and 23).   *)
(***************************************************************************)
InterpHeight(L, R, region, x) ==
    LET n == region[2] - region[1]
    IN  (L * n + (x - region[1]) * (R - L)) \div n

\* range(left_edge, right_edge): the columns the trapezoid loop visits
TrapezoidColumns(region) == region[1]..(region[2] - 1)

\* the first loop filling each column from the top row down
OriginalRowsFromTop(c, mh, x) ==
    IF x \in DOMAIN c /\ c[x] > 0 THEN SliceRange(0, c[x], mh) ELSE {}

\* the first loop with start_y = max_height - count + 1
OriginalRowsOffByOne(c, mh, x) ==
    IF x \in DOMAIN c /\ c[x] > 0 THEN SliceRange(mh - c[x] + 1, mh, mh) ELSE {}

\* rows set by the first loop in column x: export_array[max_height - count : max_height, x] = 1
\* (enumerate(counts) visits the columns the list has)
OriginalRows(c, mh, x) ==
    IF x \in DOMAIN c /\ c[x] > 0 THEN SliceRange(mh - c[x], mh, mh) ELSE {}

\* a trapezoid loop without the test of the two reference heights
TrapezoidRowsUnguarded(L, R, mh, region, x) ==
    IF x \in TrapezoidColumns(region)
    THEN SliceRange(mh - InterpHeight(L, R, region, x), mh, mh)
    ELSE {}

\* rows set in column x by the trapezoid loop of a region with edge estimates L, R
TrapezoidRows(L, R, mh, region, x) ==
    IF L > 0 /\ R > 0 /\ x \in TrapezoidColumns(region)
    THEN SliceRange(mh - InterpHeight(L, R, region, x), mh, mh)
    ELSE {}

(***************************************************************************)
(* process_tape_regions(counts, width, max_height, _, tape_edges,          *)
(* for_export=True): export_array starts as zeros((max_height, width));    *)
(* every assignment writes 1, so a cell ends 1 when one of the three loops *)
(* (original profile, left trapezoid, right trapezoid) wrote it.           *)
(* Row 0 is the top row.                                                   *)
(***************************************************************************)
process_tape_regions(c, w, mh, edges) ==
    LET left_ref_height    == LeftRefHeight(c, w, edges[1])
        left_right_height  == RightRefHeight(c, w, edges[1])
        right_ref_height   == LeftRefHeight(c, w, edges[2])
        right_right_height == RightRefHeight(c, w, edges[2])
        rows == [x \in 0..(w - 1) |->
                    OriginalRows(c, mh, x)
                    \cup TrapezoidRows(left_ref_height, left_right_height,
                                       mh, edges[1], x)
                    \cup TrapezoidRows(right_ref_height, right_right_height,
                                       mh, edges[2], x)]
    IN  [y \in 0..(mh - 1) |->
            [x \in 0..(w - 1) |-> IF y \in rows[x] THEN 1 ELSE 0]]

\* the first loop indexes column x of arrays that have width columns
OriginalLoopRaises(c, w) == \E x \in DOMAIN c : x >= w /\ c[x] > 0

\* img[ref_y, x] = GREEN with ref_y = max_height - ref_height, for x in range(a, b):
\* a row index below -max_height is out of bounds; the columns are within the image
ReferenceLineRaises(ref_height, mh, a, b) ==
    ref_height > 0 /\ a < b /\ mh - ref_height < -mh

\* the four reference lines of one call
ReferenceLinesRaise(c, w, mh, edges) ==
    \E i \in {1, 2} :
        \/ ReferenceLineRaises(LeftRefHeight(c, w, edges[i]), mh,
                               Max(0, edges[i][1] - sample_range(w)), edges[i][1])
        \/ ReferenceLineRaises(RightRefHeight(c, w, edges[i]), mh,
                               edges[i][2], Min(w, edges[i][2] + sample_range(w)))

\* progress = (x - left) / (right - left) inside a trapezoid loop that runs
TrapezoidRaises(c, w, edges) ==
    \E i \in {1, 2} :
        /\ LeftRefHeight(c, w, edges[i]) > 0
        /\ RightRefHeight(c, w, edges[i]) > 0
        /\ TrapezoidColumns(edges[i]) # {}
        /\ edges[i][2] - edges[i][1] = 0

\* the exception a call raises, in the order the statements run, or "none"
process_tape_regions_raises(c, w, mh, edges) ==
    IF OriginalLoopRaises(c, w) THEN "IndexError"
    ELSE IF ReferenceLinesRaise(c, w, mh, edges) THEN "IndexError"
    ELSE IF TrapezoidRaises(c, w, edges) THEN "ZeroDivisionError"
    ELSE "none"

\* the region pairs analyze_white_tape returns for profiles of width w
ReachableEdges(w, mh) ==
    IF ZonesNonEmpty(w)
    THEN {analyze_white_tape(c, w, mh) : c \in Profiles(w, Min(MaxCount, mh))}
    ELSE {}

InitRegions ==
    /\ pc = "process_tape_regions"
    /\ width \in 1..MaxRegionWidth
    /\ max_height \in 1..MaxHeight
    /\ tape_edges \in ReachableEdges(width, max_height)
    /\ counts \in Profiles(width, Min(MaxBallCount, max_height))
    /\ export_array = <<>>
    /\ white_counts = <<>>
    /\ IdleExcept("tape")

\* export_array = process_tape_regions(counts, width, max_height, colour, tape_edges, True)
ProcessTapeRegions ==
    /\ pc = "process_tape_regions"
    /\ LET raised == process_tape_regions_raises(counts, width, max_height, tape_edges)
       IN  IF raised = "none"
           THEN /\ export_array' = process_tape_regions(counts, width, max_height,
                                                        tape_edges)
                /\ pc' = "exported"
           ELSE /\ export_array' = <<>>
                /\ pc' = raised
    /\ UNCHANGED <<width, max_height, white_counts, counts, tape_edges>>
    /\ FrameExcept("tape")

NextRegions == ProcessTapeRegions

SpecRegions == InitRegions /\ [][NextRegions]_vars

\* the profile agrees with the other arguments: one count per column, none
\* above the number of rows
Consistent(c, w, mh) ==
    /\ Length(c) = w
    /\ \A x \in DOMAIN c : c[x] <= mh

\* lists of w - 1, w or w + 1 counts, each at most one above max_height
LooseProfiles(w, mh) ==
    UNION {[0..(n - 1) -> 0..(mh + 1)] : n \in (w - 1)..(w + 1)}

\* a call whose profile does not agree with width and max_height
InitMismatch ==
    /\ pc = "process_tape_regions"
    /\ width \in 1..MaxMismatchWidth
    /\ max_height \in 1..MaxCount
    /\ tape_edges \in ReachableEdges(width, max_height)
    /\ counts \in {c \in LooseProfiles(width, max_height) :
                      ~Consistent(c, width, max_height)}
    /\ export_array = <<>>
    /\ white_counts = <<>>
    /\ IdleExcept("tape")

SpecMismatch == InitMismatch /\ [][NextRegions]_vars

(***************************************************************************)
(* C19: process_tape_regions raises an error, and returns no grid, when    *)
(* the profile does not agree with width and max_height: when              *)
(* len(counts) != width, or when some counts[x] > max_height.              *)
(***************************************************************************)
C19_MismatchRaises ==
    pc = "exported" => Consistent(counts, width, max_height)

InRegion(x, region) == region[1] <= x /\ x < region[2]

\* number of set cells in column x of a grid of mh rows
ColumnSum(grid, mh, x) == Cardinality({y \in 0..(mh - 1) : grid[y][x] = 1})

(***************************************************************************)
(* C9: a call of process_tape_regions leaves the counts list as it was,    *)
(* and in the grid it returns every column outside both regions            *)
(* [left_edge, right_edge) holds exactly counts[x] set cells.              *)
(***************************************************************************)
C9_FrameOutsideRegions ==
    [][pc' = "exported" =>
          /\ counts' = counts
          /\ \A x \in 0..(width - 1) :
                ~InRegion(x, tape_edges[1]) /\ ~InRegion(x, tape_edges[2])
                    => ColumnSum(export_array', max_height, x) = counts[x]]_vars

\* a trapezoid raised a column inside a region above its original count,
\* while columns outside both regions hold different positive counts
C9_Witness ==
    /\ pc = "exported"
    /\ \E i \in Regions, x \in 0..(width - 1) :
          /\ InRegion(x, tape_edges[i])
          /\ ColumnSum(export_array, max_height, x) > counts[x]
    /\ \E x1, x2 \in 0..(width - 1) :
          /\ ~InRegion(x1, tape_edges[1]) /\ ~InRegion(x1, tape_edges[2])
          /\ ~InRegion(x2, tape_edges[1]) /\ ~InRegion(x2, tape_edges[2])
          /\ 0 < counts[x1]
          /\ counts[x1] < counts[x2]

(***************************************************************************)
(* C24: for profiles with every value <= max_height, the grid returned by  *)
(* process_tape_regions(for_export=True) has shape (max_height, width),    *)
(* every cell is 0 or 1, and in every column the set cells form one        *)
(* contiguous run ending at the bottom row: if the cell at row y is set,   *)
(* every cell below it in that column is set; with or without              *)
(* reconstruction.                                                         *)
(***************************************************************************)
C24_BottomRuns ==
    pc = "exported" /\ (\A x \in DOMAIN counts : counts[x] <= max_height) =>
        /\ DOMAIN export_array = 0..(max_height - 1)
        /\ \A y \in 0..(max_height - 1) :
              /\ DOMAIN export_array[y] = 0..(width - 1)
              /\ \A x \in 0..(width - 1) : export_array[y][x] \in {0, 1}
        /\ \A x \in 0..(width - 1) : \A y \in 0..(max_height - 1) :
              export_array[y][x] = 1 =>
                  \A below \in y..(max_height - 1) : export_array[below][x] = 1

\* a grid with a reconstructed column and an untouched column, both partly
\* filled
C24_Witness ==
    /\ pc = "exported"
    /\ \E i \in Regions, x \in 0..(width - 1) :
          /\ InRegion(x, tape_edges[i])
          /\ ColumnSum(export_array, max_height, x) > counts[x]
          /\ ColumnSum(export_array, max_height, x) < max_height
    /\ \E x \in 0..(width - 1) :
          /\ ~InRegion(x, tape_edges[1]) /\ ~InRegion(x, tape_edges[2])
          /\ 0 < counts[x]
          /\ counts[x] < max_height

\* the reconstructed profile: the interpolated height inside a region whose
\* two edge estimates are positive, the input count elsewhere
Reconstructed(c, w, edges, x) ==
    LET hit == {i \in Regions :
                   /\ InRegion(x, edges[i])
                   /\ LeftRefHeight(c, w, edges[i]) > 0
                   /\ RightRefHeight(c, w, edges[i]) > 0}
    IN  IF hit = {} THEN c[x]
        ELSE LET i == CHOOSE j \in hit : \A k \in hit : j <= k
             IN  InterpHeight(LeftRefHeight(c, w, edges[i]),
                              RightRefHeight(c, w, edges[i]), edges[i], x)

(***************************************************************************)
(* C10: summing the set cells of each column of the returned grid gives    *)
(* the reconstructed profile: counts[x] outside the regions and the        *)
(* truncated interpolated height inside a region whose two edge estimates  *)
(* are positive, whatever the original count at x.                         *)
(***************************************************************************)
C10_RoundTrip ==
    pc = "exported" =>
        \A x \in 0..(width - 1) :
            ColumnSum(export_array, max_height, x)
                = Reconstructed(counts, width, tape_edges, x)

\* a region for which no trapezoid is drawn: degenerate, or an estimate of 0
Skipped(c, w, region) ==
    \/ region[1] = region[2]
    \/ LeftRefHeight(c, w, region) = 0
    \/ RightRefHeight(c, w, region) = 0

(***************************************************************************)
(* C12: if either sampled neighbourhood of a region has no positive value  *)
(* (estimate 0), or the region is degenerate, process_tape_regions raises  *)
(* no error and the grid inside that region is the rasterization of the    *)
(* original counts: in column x exactly the bottom counts[x] cells are     *)
(* set.                                                                    *)
(***************************************************************************)
C12_SkippedRegionKeepsCounts ==
    /\ pc \in {"process_tape_regions", "exported"}
    /\ pc = "exported" =>
          \A i \in Regions :
              Skipped(counts, width, tape_edges[i]) =>
                  \A x \in 0..(width - 1) :
                      InRegion(x, tape_edges[i]) =>
                          \A y \in 0..(max_height - 1) :
                              export_array[y][x] = 1 <=> y >= max_height - counts[x]

\* a region two columns wide or more with a left estimate of 0 and a positive
\* right estimate keeps an empty column and a column of positive count
C12_Witness ==
    /\ pc = "exported"
    /\ \E i \in Regions :
          /\ tape_edges[i][2] - tape_edges[i][1] >= 2
          /\ LeftRefHeight(counts, width, tape_edges[i]) = 0
          /\ RightRefHeight(counts, width, tape_edges[i]) >= 2
          /\ \E x1, x2 \in 0..(width - 1) :
                /\ InRegion(x1, tape_edges[i]) /\ counts[x1] = 0
                /\ InRegion(x2, tape_edges[i]) /\ counts[x2] = 1
                /\ x1 > tape_edges[i][1]

(***************************************************************************)
(* The trapezoid loop of process_tape_regions on its own: the loop runs     *)
(* when both reference heights are positive and computes one height per    *)
(* column of range(left_tape_left, left_tape_right).  The loops of the     *)
(* left and of the right tape are the same code on different variables.    *)
(***************************************************************************)
TrapezoidHeights(L, R, region) ==
    IF L > 0 /\ R > 0
    THEN [x \in TrapezoidColumns(region) |-> InterpHeight(L, R, region, x)]
    ELSE [x \in {} |-> 0]

\* regions <<left, right>> with left <= right, the degenerate ones included
SpanRegions == {<<l, l + n>> : l \in 0..MaxLeftEdge, n \in 0..MaxSpan}

InitInterp ==
    /\ pc = "trapezoid"
    /\ tape_region \in SpanRegions
    /\ ref_heights \in (0..MaxEstimate) \X (0..MaxEstimate)
    /\ heights = <<>>
    /\ IdleExcept("interp")

DrawTrapezoid ==
    /\ pc = "trapezoid"
    /\ heights' = TrapezoidHeights(ref_heights[1], ref_heights[2], tape_region)
    /\ pc' = "drawn"
    /\ UNCHANGED <<tape_region, ref_heights>>
    /\ FrameExcept("interp")

NextInterp == DrawTrapezoid

SpecInterp == InitInterp /\ [][NextInterp]_vars

AbsDiff(a, b) == IF a >= b THEN a - b ELSE b - a

CeilDiv(a, b) == (a + b - 1) \div b

(***************************************************************************)
(* C11: for a region of width n = right_edge - left_edge >= 1 with         *)
(* positive edge estimates L and R, the interpolated heights satisfy       *)
(* h(left_edge) = L, h(right_edge - 1) is within ceil(|R - L| / n) of R,   *)
(* every h(x) lies between min(L, R) and max(L, R), and h is               *)
(* non-decreasing in x when L <= R and non-increasing when L > R.          *)
(***************************************************************************)
C11_InterpolatedHeights ==
    LET L == ref_heights[1]
        R == ref_heights[2]
        n == tape_region[2] - tape_region[1]
        cols == TrapezoidColumns(tape_region)
    IN  pc = "drawn" /\ L > 0 /\ R > 0 /\ n >= 1 =>
            /\ DOMAIN heights = cols
            /\ heights[tape_region[1]] = L
            /\ AbsDiff(heights[tape_region[2] - 1], R) <= CeilDiv(AbsDiff(R, L), n)
            /\ \A x \in cols : Min(L, R) <= heights[x] /\ heights[x] <= Max(L, R)
            /\ \A x, y \in cols :
                  x < y => IF L <= R THEN heights[x] <= heights[y]
                                     ELSE heights[x] >= heights[y]

\* a rising trapezoid several columns wide whose last column stays below R
\* and whose heights take a value strictly between the two estimates
C11_Witness ==
    /\ pc = "drawn"
    /\ ref_heights[1] >= 2
    /\ ref_heights[2] >= ref_heights[1] + 3
    /\ tape_region[2] - tape_region[1] >= 3
    /\ tape_region[1] >= 1
    /\ heights[tape_region[2] - 1] < ref_heights[2]
    /\ \E x \in DOMAIN heights :
          ref_heights[1] < heights[x] /\ heights[x] < heights[tape_region[2] - 1]

(***************************************************************************)
(* new_detection.py: BallDetector._calculate_resolution_scaled_params      *)
(* Thresholds that the code holds as fractions (foreground_threshold 0.55, *)
(* the steps 0.1 and the limits 0.1 and 0.9) are kept in hundredths; the   *)
(* sums and comparisons on them are the same on the hundredths as on the   *)
(* doubles up to one unit in the last place of a result.                   *)
(***************************************************************************)
standard_width == 5510

standard_height == 408

\* WATERSHED_PARAMS: binary_threshold, foreground_threshold, min_area
WATERSHED_PARAMS ==
    [binary_threshold |-> 1, foreground_threshold |-> 55, min_area |-> 500]

\* scale_factor = min(width / standard_width, height / standard_height), a double;
\* min(a, b) is b when b < a, and the two quotients are correctly rounded
scale_factor(shape) ==
    IF shape[1] * standard_width < shape[2] * standard_height
    THEN FloatDiv(shape[1], standard_height)
    ELSE FloatDiv(shape[2], standard_width)

\* scale_factor < 0.5 and scale_factor > 2.0: 0.5 and 2.0 are doubles and no
\* quotient by 5510 or 408 lies within a rounding error of them
ScaleBelowHalf(shape) ==
    2 * shape[2] < standard_width \/ 2 * shape[1] < standard_height

ScaleAboveTwo(shape) ==
    shape[2] > 2 * standard_width /\ shape[1] > 2 * standard_height

\* max(10, int(self.params['min_area'] * scale_factor * scale_factor))
ScaledMinArea(base, shape) ==
    Max(10, FloatTrunc(FloatMul(FloatMulInt(base.min_area, scale_factor(shape)),
                                scale_factor(shape))))

\* scaled_params['foreground_threshold'], in hundredths
ScaledForegroundThreshold(base, shape) ==
    IF ScaleBelowHalf(shape) THEN Min(90, base.foreground_threshold + 10)
    ELSE IF ScaleAboveTwo(shape) THEN Max(10, base.foreground_threshold - 10)
    ELSE base.foreground_threshold

\* scaled_params['binary_threshold']
ScaledBinaryThreshold(base, shape) ==
    IF ScaleBelowHalf(shape) THEN Min(10, base.binary_threshold + 2)
    ELSE IF ScaleAboveTwo(shape) THEN Max(0, base.binary_threshold - 1)
    ELSE base.binary_threshold

calculate_resolution_scaled_params(base, shape) ==
    [binary_threshold     |-> ScaledBinaryThreshold(base, shape),
     foreground_threshold |-> ScaledForegroundThreshold(base, shape),
     min_area             |-> ScaledMinArea(base, shape)]

\* grid shapes <<height, width>>: widths at and between the multiples of a
\* tenth of the reference width, heights at the multiples of half the
\* reference height
GridWidths == {551 * k + o : k \in 1..MaxWidthStep, o \in {0, 275}}

GridHeights == {204 * j : j \in 1..MaxHeightStep}

\* BallDetector(params): the default parameters or configured ones
ConfiguredParams ==
    {WATERSHED_PARAMS} \cup
    {[binary_threshold |-> b, foreground_threshold |-> f, min_area |-> 500] :
        b \in {0, 1, 12}, f \in {5, 55, 95}}

InitParams ==
    /\ pc = "scale_params"
    /\ image_shape \in GridHeights \X GridWidths
    /\ params \in ConfiguredParams
    /\ scaled_params = <<>>
    /\ IdleExcept("params")

CalculateScaledParams ==
    /\ pc = "scale_params"
    /\ scaled_params' = calculate_resolution_scaled_params(params, image_shape)
    /\ pc' = "params_scaled"
    /\ UNCHANGED <<image_shape, params>>
    /\ FrameExcept("params")

NextParams == CalculateScaledParams

SpecParams == InitParams /\ [][NextParams]_vars

\* floor(500 * scale^2) for scale = min(width / 5510, height / 408), in exact
\* arithmetic: 500 * (w / 5510)^2 = 5 * w^2 / 551^2 and
\* 500 * (h / 408)^2 = 125 * h^2 / 204^2
FloorScaledArea(shape) ==
    IF shape[1] * standard_width < shape[2] * standard_height
    THEN (125 * shape[1] * shape[1]) \div (204 * 204)
    ELSE (5 * shape[2] * shape[2]) \div (551 * 551)

(***************************************************************************)
(* C15: for every grid shape (height, width), the scaled min_area is       *)
(* max(10, floor(min_area * scale^2)) with scale = min(width / 5510,       *)
(* height / 408); it is never below 10 and it does not decrease when the   *)
(* width or the height grows.                                              *)
(***************************************************************************)
C15_MinAreaScaling ==
    pc = "params_scaled" /\ params.min_area = 500 =>
        /\ scaled_params.min_area = Max(10, FloorScaledArea(image_shape))
        /\ scaled_params.min_area >= 10
        /\ \A step \in {<<0, 1>>, <<1, 0>>, <<0, 551>>, <<204, 0>>} :
              ScaledMinArea(params, <<image_shape[1] + step[1],
                                      image_shape[2] + step[2]>>)
                  >= scaled_params.min_area

(***************************************************************************)
(* C16: when scale < 0.5 the scaled foreground_threshold and               *)
(* binary_threshold are each >= their base value; when scale > 2.0 each is *)
(* <= its base value; when 0.5 <= scale <= 2.0 both equal their base       *)
(* values; for every configured base value.                                *)
(***************************************************************************)
C16_ThresholdNudges ==
    pc = "params_scaled" =>
        IF ScaleBelowHalf(image_shape)
        THEN /\ scaled_params.foreground_threshold >= params.foreground_threshold
             /\ scaled_params.binary_threshold >= params.binary_threshold
        ELSE IF ScaleAboveTwo(image_shape)
        THEN /\ scaled_params.foreground_threshold <= params.foreground_threshold
             /\ scaled_params.binary_threshold <= params.binary_threshold
        ELSE /\ scaled_params.foreground_threshold = params.foreground_threshold
             /\ scaled_params.binary_threshold = params.binary_threshold

(***************************************************************************)
(* new_detection.py: the dict objects behind BallDetector.  The module has *)
(* one dict WATERSHED_PARAMS with a nested dict under 'visualization';     *)
(* BallDetector() stores a reference to the former in self.params, so all  *)
(* default detectors share both objects.  The heap maps an object to its   *)
(* entries; an entry that holds a dict holds the name of that object.      *)
(* "scaled_params" and "scaled_visualization" are the objects a call       *)
(* creates.  Of the nested dict the two integer entries are modelled;      *)
(* text_scale is written through the same reference, and the colour        *)
(* tuples are never written.                                               *)
(***************************************************************************)
DefaultHeap ==
    [o \in {"WATERSHED_PARAMS", "visualization", "scaled_params",
            "scaled_visualization"} |->
        IF o = "WATERSHED_PARAMS"
        THEN [binary_threshold |-> 1, distance_weight |-> 0,
              foreground_threshold |-> 55, min_area |-> 500,
              visualization |-> "visualization"]
        ELSE IF o = "visualization"
        THEN [circle_radius |-> 10, text_thickness |-> 2]
        ELSE <<>>]

\* max(k0, int(value * scale_factor))
ScaledInt(k0, value, shape) ==
    Max(k0, FloatTrunc(FloatMulInt(value, scale_factor(shape))))

\* the nested dict is not copied: scaled_params keeps the reference it got
\* from the shallow copy
KeepVisualization(h, self_params) == h

\* scaled_params['visualization'] = self.params['visualization'].copy()
CopyVisualization(h, self_params) ==
    [h EXCEPT !["scaled_visualization"] = h[h[self_params].visualization],
              !["scaled_params"].visualization = "scaled_visualization"]

\* the heap after _calculate_resolution_scaled_params(image_shape) on a
\* detector whose self.params is the object self_params
HeapAfterScaling(h, self_params, shape) ==
    LET h1 == [h EXCEPT !["scaled_params"] = h[self_params]]
        h2 == [h1 EXCEPT
                 !["scaled_params"].min_area =
                     ScaledMinArea(h1[self_params], shape),
                 !["scaled_params"].distance_weight = 0,
                 !["scaled_params"].foreground_threshold =
                     ScaledForegroundThreshold(h1[self_params], shape)]
        h3 == CopyVisualization(h2, self_params)
        h4 == [h3 EXCEPT
                 ![h3["scaled_params"].visualization].circle_radius =
                     ScaledInt(3, h3[h3[self_params].visualization].circle_radius,
                               shape)]
        h5 == [h4 EXCEPT
                 ![h4["scaled_params"].visualization].text_thickness =
                     ScaledInt(1, h4[h4[self_params].visualization].text_thickness,
                               shape)]
    IN  [h5 EXCEPT
           !["scaled_params"].binary_threshold =
               ScaledBinaryThreshold(h5[self_params], shape)]

\* the dict a call returns, with the nested dict in place of its reference
Returned(h) ==
    [h["scaled_params"] EXCEPT !.visualization = h[h["scaled_params"].visualization]]

\* grid shapes <<height, width>> with scale factors 0.25, 0.25, 0.5, 1, 2, 3
SharedShapes ==
    {<<102, 1378>>, <<408, 1378>>, <<204, 2755>>, <<408, 5510>>,
     <<816, 11020>>, <<1224, 16530>>}

CallKinds == {"detect_balls", "_calculate_resolution_scaled_params"}

\* MaxDetectors instances made by BallDetector(): self.params = WATERSHED_PARAMS
InitShared ==
    /\ pc = "shared"
    /\ heap = DefaultHeap
    /\ detector_params = [d \in 1..MaxDetectors |-> "WATERSHED_PARAMS"]
    /\ call = <<>>
    /\ calls = 0
    /\ returned = <<>>
    /\ IdleExcept("shared")

\* one call of detect_balls or of _calculate_resolution_scaled_params on one
\* of the detectors; detect_balls only reads the dict it gets
DetectorCall ==
    /\ pc = "shared"
    /\ calls < MaxCalls
    /\ \E d \in 1..MaxDetectors, shape \in SharedShapes, kind \in CallKinds :
          /\ call' = [kind |-> kind, detector |-> d, shape |-> shape]
          /\ heap' = HeapAfterScaling(heap, detector_params[d], shape)
    /\ returned' = Returned(heap')
    /\ calls' = calls + 1
    /\ UNCHANGED <<pc, detector_params>>
    /\ FrameExcept("shared")

NextShared == DetectorCall

SpecShared == InitShared /\ [][NextShared]_vars

\* what a first call on a fresh default detector returns for each shape
FreshScaled ==
    [shape \in SharedShapes |->
        Returned(HeapAfterScaling(DefaultHeap, "WATERSHED_PARAMS", shape))]

(***************************************************************************)
(* C25: after any sequence of detect_balls and                             *)
(* _calculate_resolution_scaled_params calls on grids of any shapes, by    *)
(* any number of detectors sharing the default parameters, self.params and *)
(* WATERSHED_PARAMS with its nested visualization dict are unchanged, and  *)
(* the scaled parameters computed for a shape do not depend on the calls   *)
(* made before.                                                            *)
(***************************************************************************)
C25_DefaultsUnchanged ==
    pc = "shared" =>
        /\ heap["WATERSHED_PARAMS"] = DefaultHeap["WATERSHED_PARAMS"]
        /\ heap["visualization"] = DefaultHeap["visualization"]
        /\ \A d \in 1..MaxDetectors : detector_params[d] = "WATERSHED_PARAMS"
        /\ calls > 0 => returned = FreshScaled[call.shape]

\* a third call, on a small grid, whose result differs from the defaults in
\* the nested dict as well
C25_Witness ==
    /\ pc = "shared"
    /\ calls >= 3
    /\ call.detector = 2
    /\ call.kind = "detect_balls"
    /\ returned.visualization.circle_radius = 3
    /\ returned.min_area < 500
    /\ heap["visualization"].circle_radius = 10

(***************************************************************************)
(* new_detection.py: BallDetector.detect_balls                             *)
(* A grid of H rows and W columns is a function on the pixel numbers       *)
(* 0..H*W-1 in raster order (pixel y * W + x is row y, column x; row 0 is  *)
(* the top row).  The OpenCV calls are modelled by what they compute:      *)
(*   threshold          value > thresh                                     *)
(*   distanceTransform  DIST_L2 with mask size 0 (precise): the Euclidean  *)
(*                      distance to the nearest zero pixel, kept squared   *)
(*   connectedComponents 8-connected components, numbered from 1           *)
(*   watershed          the flooding of cv::watershed: the border of the   *)
(*                      image becomes -1, and the pixels marked 0 are      *)
(*                      taken from a queue ordered by colour difference,   *)
(*                      first in first out within one difference           *)
(***************************************************************************)
PixelSet(H, W) == 0..(H * W - 1)

RowOf(i, W) == i \div W

ColOf(i, W) == i % W

\* cv2.threshold(gray, thresh, 255, cv2.THRESH_BINARY): the pixels set to 255
Binary(g, thresh) == {i \in DOMAIN g : g[i] > thresh}

SquaredDistance(i, j, W) ==
    (RowOf(i, W) - RowOf(j, W)) * (RowOf(i, W) - RowOf(j, W))
    + (ColOf(i, W) - ColOf(j, W)) * (ColOf(i, W) - ColOf(j, W))

\* cv2.distanceTransform(binary, cv2.DIST_L2, 0), squared; for an image with
\* at least one zero pixel
DistanceTransform(fg, H, W) ==
    LET zeros == PixelSet(H, W) \ fg
    IN  [i \in PixelSet(H, W) |->
            IF i \in fg
            THEN SetMin({SquaredDistance(i, z, W) : z \in zeros})
            ELSE 0]

\* cv2.threshold(dist_transform, foreground_threshold * dist_transform.max(), 255, 0):
\* dist > (f / 100) * max, compared on the squares
SureForeground(dist, f) ==
    LET top == SetMax({dist[i] : i \in DOMAIN dist})
    IN  {i \in DOMAIN dist : dist[i] * 10000 > f * f * top}

Adjacent8(i, j, W) ==
    /\ i # j
    /\ RowOf(i, W) - RowOf(j, W) \in {-1, 0, 1}
    /\ ColOf(i, W) - ColOf(j, W) \in {-1, 0, 1}

RECURSIVE Reach(_, _, _)
Reach(S, seen, W) ==
    LET new == {j \in S \ seen : \E k \in seen : Adjacent8(j, k, W)}
    IN  IF new = {} THEN seen ELSE Reach(S, seen \cup new, W)

\* cv2.connectedComponents(sure_fg): 0 off the set, and on it the number of
\* the pixel's component, the components taken in the raster order of their
\* first pixels
ConnectedComponents(S, H, W) ==
    LET first == [i \in S |-> SetMin(Reach(S, {i}, W))]
    IN  [i \in PixelSet(H, W) |->
            IF i \in S
            THEN Cardinality({first[j] : j \in {k \in S : first[k] <= first[i]}})
            ELSE 0]

\* markers = markers + 1; markers[binary == 0] = 0
MarkersBefore(fg, labels) ==
    [i \in DOMAIN labels |-> IF i \in fg THEN labels[i] + 1 ELSE 0]

IsBorder(i, H, W) ==
    \/ RowOf(i, W) \in {0, H - 1}
    \/ ColOf(i, W) \in {0, W - 1}

\* the four neighbours of an interior pixel: left, right, top, bottom
Neighbours4(i, W) == <<i - 1, i + 1, i - W, i + W>>

\* c_diff of two pixels of a grey image given as three equal channels
ColourDiff(g, i, j) == IF g[i] >= g[j] THEN g[i] - g[j] ELSE g[j] - g[i]

\* the label a pixel taken from the queue receives from its neighbours:
\* their common positive label, or -1 where two labels meet
RECURSIVE LabelFrom(_, _, _, _)
LabelFrom(m, nbs, k, lab) ==
    IF k > Len(nbs) THEN lab
    ELSE LET t == m[nbs[k]]
         IN  LabelFrom(m, nbs, k + 1,
                       IF t > 0
                       THEN IF lab = 0 THEN t ELSE IF t # lab THEN -1 ELSE lab
                       ELSE lab)

\* the first phase: the pixels marked 0 that touch a positive marker, in
\* raster order, each with its smallest colour difference to such a marker
RECURSIVE InitialQueue(_, _, _, _, _)
InitialQueue(m, g, H, W, i) ==
    IF i >= H * W THEN <<>>
    ELSE LET nbs == Neighbours4(i, W)
             pos == {k \in 1..4 : m[nbs[k]] > 0}
         IN  IF ~IsBorder(i, H, W) /\ m[i] = 0 /\ pos # {}
             THEN <<<<SetMin({ColourDiff(g, i, nbs[k]) : k \in pos}), i>>>>
                  \o InitialQueue(m, g, H, W, i + 1)
             ELSE InitialQueue(m, g, H, W, i + 1)

\* position in the queue of the oldest entry of the lowest difference
NextInQueue(q) ==
    CHOOSE k \in 1..Len(q) :
        /\ \A j \in 1..Len(q) : q[k][1] <= q[j][1]
        /\ \A j \in 1..(k - 1) : q[k][1] < q[j][1]

\* the second phase: take a pixel, label it, and queue its neighbours still
\* marked 0 (-2 marks a pixel that is in the queue)
RECURSIVE Flood(_, _, _, _)
Flood(m, q, g, W) ==
    IF q = <<>> THEN m
    ELSE LET k    == NextInQueue(q)
             pix  == q[k][2]
             rest == SubSeq(q, 1, k - 1) \o SubSeq(q, k + 1, Len(q))
             nbs  == Neighbours4(pix, W)
             lab  == LabelFrom(m, nbs, 1, 0)
             open == SelectSeq(nbs, LAMBDA j : m[j] = 0)
         IN  IF lab = -1
             THEN Flood([m EXCEPT ![pix] = -1], rest, g, W)
             ELSE Flood([j \in DOMAIN m |->
                            IF j = pix THEN lab
                            ELSE IF \E n \in 1..Len(open) : open[n] = j THEN -2
                            ELSE m[j]],
                        rest \o [n \in 1..Len(open) |->
                                    <<ColourDiff(g, pix, open[n]), open[n]>>],
                        g, W)

\* cv2.watershed(image, markers)
Watershed(g, m, H, W) ==
    LET framed == [i \in DOMAIN m |-> IF IsBorder(i, H, W) THEN -1 ELSE m[i]]
        queue  == InitialQueue(framed, g, H, W, 0)
        queued == {queue[k][2] : k \in 1..Len(queue)}
    IN  Flood([i \in DOMAIN m |-> IF i \in queued THEN -2 ELSE framed[i]],
              queue, g, W)

RECURSIVE SumOver(_, _)
SumOver(S, f) ==
    IF S = {} THEN 0
    ELSE LET x == CHOOSE y \in S : TRUE
         IN  f[x] + SumOver(S \ {x}, f)

\* the pixels of a label, as the mask markers == label
RegionOf(m, label) == {i \in DOMAIN m : m[i] = label}

\* (cx, cy) = (int(m10 / m00), int(m01 / m00)) of the mask
Centroid(region, W) ==
    <<SumOver(region, [i \in region |-> ColOf(i, W)]) \div Cardinality(region),
      SumOver(region, [i \in region |-> RowOf(i, W)]) \div Cardinality(region)>>

\* area >= scaled_params['min_area'] (and then M["m00"] != 0)
KeepsRegion(m, label, min_area) ==
    Cardinality(RegionOf(m, label)) >= min_area

\* for label in range(2, markers.max() + 1): ... centers.append((cx, cy))
RECURSIVE CentersFrom(_, _, _, _, _)
CentersFrom(m, label, top, min_area, W) ==
    IF label > top THEN <<>>
    ELSE (IF KeepsRegion(m, label, min_area)
          THEN <<Centroid(RegionOf(m, label), W)>>
          ELSE <<>>)
         \o CentersFrom(m, label + 1, top, min_area, W)

\* the markers after the watershed, for a grid of shape <<H, W>>
WatershedMarkers(g, shape, scaled) ==
    LET fg   == Binary(g, scaled.binary_threshold)
        dist == DistanceTransform(fg, shape[1], shape[2])
        core == SureForeground(dist, scaled.foreground_threshold)
    IN  Watershed(g, MarkersBefore(fg, ConnectedComponents(core, shape[1], shape[2])),
                  shape[1], shape[2])

\* the filter loop started at label 0 instead of label 2
FilterCentersFromZero(m, shape, scaled) ==
    CentersFrom(m, 0, SetMax({m[i] : i \in DOMAIN m}), scaled.min_area, shape[2])

\* the centers detect_balls returns for the markers m
FilterCenters(m, shape, scaled) ==
    CentersFrom(m, 2, SetMax({m[i] : i \in DOMAIN m}), scaled.min_area, shape[2])

(***************************************************************************)
(* The grids the pipeline hands to detect_balls: export_array * 255, the   *)
(* rasterization of a column profile, each column filled from the bottom   *)
(* row up.  The grid has max_height rows, the height of the tallest of the *)
(* red, blue and white profiles, so a ball-colour grid may be taller than  *)
(* its own profile, as it is here.                                         *)
(***************************************************************************)
GridOfProfile(c, H, W) ==
    [i \in PixelSet(H, W) |-> IF RowOf(i, W) >= H - c[ColOf(i, W)] THEN 255 ELSE 0]

InitDetect ==
    /\ pc = "detect_balls"
    /\ params = WATERSHED_PARAMS
    /\ image_shape = <<MaxGridHeight, MaxGridWidth>>
    /\ \E c \in Profiles(MaxGridWidth, MaxBallCount) :
          color_map = GridOfProfile(c, MaxGridHeight, MaxGridWidth)
    /\ scaled_params = <<>>
    /\ markers = <<>>
    /\ centers = <<>>
    /\ IdleExcept("detect")

\* BallDetector.detect_balls(color_map) for a two-dimensional grid
DetectBalls ==
    /\ pc = "detect_balls"
    /\ scaled_params' = calculate_resolution_scaled_params(params, image_shape)
    /\ markers' = WatershedMarkers(color_map, image_shape, scaled_params')
    /\ centers' = FilterCenters(markers', image_shape, scaled_params')
    /\ pc' = "detected"
    /\ UNCHANGED <<image_shape, params, color_map>>
    /\ FrameExcept("detect")

NextDetect == DetectBalls

SpecDetect == InitDetect /\ [][NextDetect]_vars

(***************************************************************************)
(* quantize_to_detection.py: ImageProcessor.__init__ and the scaling step  *)
(* of process_directory.  A scale_factor argument is <<>> for None and     *)
(* <<f>> for the number f/100; the attributes of the instance are the set  *)
(* of their names.                                                         *)
(***************************************************************************)
None == <<>>

\* ImageProcessor(scale_factor, enable_scaling)
ImageProcessor(factor, scaling) ==
    [scale_factor |-> factor,
     enable_scaling |-> scaling,
     attributes |->
        {"scale_factor", "enable_scaling", "base_dir", "input_dir",
         "scaled_dir", "output_base_dir", "ball_detector"}
        \cup IF scaling /\ factor # None THEN {"scaler"} ELSE {}]

\* step 1 of the try block for one image
ScalingStep(p) ==
    IF p.enable_scaling
    THEN IF "scaler" \in p.attributes THEN "scaled" ELSE "AttributeError"
    ELSE "skipped"

InitProcessor ==
    /\ pc = "scaling_steps"
    /\ \E factor \in {None} \cup {<<f>> : f \in {0} \cup ScaleFactors},
          scaling \in BOOLEAN :
          processor = ImageProcessor(factor, scaling)
    /\ filenames \in UNION {[1..n -> BOOLEAN] : n \in 0..MaxFiles}
    /\ visited = 0
    /\ scaling_steps = <<>>
    /\ IdleExcept("processor")

\* one pass of the for loop of process_directory, up to the scaling step
ProcessorStep ==
    /\ pc = "scaling_steps"
    /\ visited < Len(filenames)
    /\ visited' = visited + 1
    /\ scaling_steps' =
          Append(scaling_steps,
                 IF filenames[visited + 1] THEN ScalingStep(processor)
                 ELSE "not_image")
    /\ UNCHANGED <<pc, processor, filenames>>
    /\ FrameExcept("processor")

NextProcessor == ProcessorStep

SpecProcessor == InitProcessor /\ [][NextProcessor]_vars

(***************************************************************************)
(* C29: for every combination of ImageProcessor constructor arguments,     *)
(* the defaults scale_factor=None, enable_scaling=True included, whenever  *)
(* process_directory executes the scaling step for an image the attribute  *)
(* self.scaler exists, so the step cannot fail for lack of a scaler.       *)
(***************************************************************************)
C29_ScalerExists ==
    pc = "scaling_steps" =>
        \A i \in 1..Len(scaling_steps) :
            filenames[i] /\ processor.enable_scaling
                => /\ "scaler" \in processor.attributes
                   /\ scaling_steps[i] # "AttributeError"

(***************************************************************************)
(* quantize_to_detection.py: parse_expected_counts and the detection       *)
(* summary of process_image.  A parsed count n is <<n>>, an unparsed one   *)
(* is None; accuracy is the exact quotient <<numerator, denominator>> of   *)
(* the division the code makes.                                            *)
(***************************************************************************)
DigitValue == [c \in {"0", "1", "2", "3"} |->
                  IF c = "0" THEN 0 ELSE IF c = "1" THEN 1
                  ELSE IF c = "2" THEN 2 ELSE 3]

\* int() of a run of digits
RECURSIVE ParseInt(_)
ParseInt(run) ==
    IF run = <<>> THEN 0
    ELSE 10 * ParseInt(SubSeq(run, 1, Len(run) - 1)) + DigitValue[run[Len(run)]]

IsDigits(name, from, to) ==
    \A k \in from..to : name[k] \in DOMAIN DigitValue

\* re.match(r'(\d+)B_(\d+)R', filename): <<blue_expected, red_expected>>
parse_expected_counts(name) ==
    LET matches ==
            {<<i, j>> \in (1..Len(name)) \X (1..Len(name)) :
                /\ i + 3 + j <= Len(name)
                /\ IsDigits(name, 1, i)
                /\ name[i + 1] = "B"
                /\ name[i + 2] = "_"
                /\ IsDigits(name, i + 3, i + 2 + j)
                /\ name[i + 3 + j] = "R"}
    IN  IF matches = {} THEN <<None, None>>
        ELSE LET m == CHOOSE m \in matches : TRUE
             IN  <<<<ParseInt(SubSeq(name, 1, m[1]))>>,
                   <<ParseInt(SubSeq(name, m[1] + 3, m[1] + 2 + m[2]))>>>>

\* (total_balls - abs(total_diff)) / total_expected * 100
\*     if total_expected > 0 else 0
accuracy_of(total_balls, total_expected) ==
    IF total_expected > 0
    THEN <<(total_balls - AbsDiff(total_balls, total_expected)) * 100,
           total_expected>>
    ELSE <<0, 1>>

DigitRuns == UNION {[1..n -> DOMAIN DigitValue] : n \in 0..MaxDigits}

\* names around the format XB_YR
Filenames ==
    {a \o m \o b \o t :
        a \in DigitRuns, b \in DigitRuns,
        m \in {<<"B", "_">>, <<"B">>, <<"_">>, <<"R", "_">>},
        t \in {<<"R">>, <<>>, <<"R", "x">>, <<"B">>}}

InitSummary ==
    /\ pc = "summary"
    /\ filename \in Filenames
    /\ found \in (0..MaxFound) \X (0..MaxFound)
    /\ summary = <<>>
    /\ IdleExcept("summary")

\* process_image: the totals and the lines under "Detection Summary"
PrintSummary ==
    /\ pc = "summary"
    /\ LET expected == parse_expected_counts(filename)
           blue_expected == expected[1]
           red_expected == expected[2]
           total_balls == found[1] + found[2]
       IN  summary' =
              IF red_expected # None /\ blue_expected # None
              THEN [total_balls |-> total_balls,
                    total_expected |-> <<red_expected[1] + blue_expected[1]>>,
                    accuracy |->
                       <<accuracy_of(total_balls,
                                     red_expected[1] + blue_expected[1])>>]
              ELSE [total_balls |-> total_balls,
                    total_expected |-> None,
                    accuracy |-> None]
    /\ pc' = "summarised"
    /\ UNCHANGED <<filename, found>>
    /\ FrameExcept("summary")

NextSummary == PrintSummary

SpecSummary == InitSummary /\ [][NextSummary]_vars

(***************************************************************************)
(* C30: in process_image, when expected counts are parsed from the         *)
(* filename and total_expected > 0, the reported accuracy percentage lies  *)
(* between 0 and 100 and equals 100 if and only if the total number of     *)
(* balls found equals the total expected.                                  *)
(***************************************************************************)
C30_AccuracyRange ==
    pc = "summarised" /\ summary.total_expected # None =>
        LET total_expected == summary.total_expected[1]
            accuracy == summary.accuracy[1]
        IN  total_expected > 0 =>
                /\ 0 <= accuracy[1]
                /\ accuracy[1] <= 100 * accuracy[2]
                /\ accuracy[1] = 100 * accuracy[2]
                      <=> summary.total_balls = total_expected

(***************************************************************************)
(* color_mapper.py: is_color_close, and the three colour profiles that     *)
(* process_image counts with it.  colorsys.rgb_to_hsv works on doubles;    *)
(* here hue and saturation are the exact quotients <<numerator,            *)
(* denominator>>.  The quotients of 8-bit channels differ from a threshold *)
(* by far more than the rounding error unless they equal it, so a          *)
(* comparison of the doubles agrees with the exact one except on equal     *)
(* quotients, where the doubles fall on either side: `rounding` holds the  *)
(* outcome of such a comparison for the pixel.                             *)
(***************************************************************************)
COLORS == [RED |-> <<255, 0, 0>>, BLUE |-> <<0, 0, 255>>,
           WHITE |-> <<255, 255, 255>>]

RED_THRESHOLD == [min_red |-> 150, max_green |-> 100, max_blue |-> 100]

BLUE_THRESHOLD ==
    [min_blue |-> 130, max_red |-> 130, max_green |-> 130,
     hsv_hue_min |-> <<55, 100>>, hsv_hue_max |-> <<7, 10>>,
     hsv_saturation_min |-> <<4, 10>>]

WHITE_THRESHOLD == [min_rgb |-> 200]

\* a < b and a = b for quotients with positive denominators
QuotientLess(a, b) == a[1] * b[2] < b[1] * a[2]

QuotientEqual(a, b) == a[1] * b[2] = b[1] * a[2]

\* colorsys.rgb_to_hsv(r/255.0, g/255.0, b/255.0): hue and saturation
rgb_to_hsv(r, g, b) ==
    LET maxc == Max(r, Max(g, b))
        minc == Min(r, Min(g, b))
        rangec == maxc - minc
    IN  IF minc = maxc THEN [h |-> <<0, 1>>, s |-> <<0, 1>>]
        ELSE [h |-> IF r = maxc THEN <<(g - b) % (6 * rangec), 6 * rangec>>
                    ELSE IF g = maxc THEN <<2 * rangec + b - r, 6 * rangec>>
                    ELSE <<4 * rangec + r - g, 6 * rangec>>,
              s |-> <<rangec, maxc>>]

\* a BLUE test that leaves the saturation out
is_color_close_AnyHue(pixel, target_color, round) ==
    LET r == pixel[1]
        g == pixel[2]
        b == pixel[3]
        hsv == rgb_to_hsv(r, g, b)
    IN  IF target_color = COLORS.RED
        THEN r > RED_THRESHOLD.min_red /\ g < RED_THRESHOLD.max_green
             /\ b < RED_THRESHOLD.max_blue
        ELSE IF target_color = COLORS.BLUE
        THEN \/ b > BLUE_THRESHOLD.min_blue /\ r < BLUE_THRESHOLD.max_red
                /\ g < BLUE_THRESHOLD.max_green
             \/ /\ IF QuotientEqual(BLUE_THRESHOLD.hsv_hue_min, hsv.h)
                   THEN round.hue
                   ELSE QuotientLess(BLUE_THRESHOLD.hsv_hue_min, hsv.h)
                /\ IF QuotientEqual(hsv.h, BLUE_THRESHOLD.hsv_hue_max)
                   THEN round.hue
                   ELSE QuotientLess(hsv.h, BLUE_THRESHOLD.hsv_hue_max)
        ELSE IF target_color = COLORS.WHITE
        THEN r > WHITE_THRESHOLD.min_rgb /\ g > WHITE_THRESHOLD.min_rgb
             /\ b > WHITE_THRESHOLD.min_rgb
        ELSE FALSE

is_color_close(pixel, target_color, round) ==
    LET r == pixel[1]
        g == pixel[2]
        b == pixel[3]
        hsv == rgb_to_hsv(r, g, b)
    IN  IF target_color = COLORS.RED
        THEN r > RED_THRESHOLD.min_red /\ g < RED_THRESHOLD.max_green
             /\ b < RED_THRESHOLD.max_blue
        ELSE IF target_color = COLORS.BLUE
        THEN \/ b > BLUE_THRESHOLD.min_blue /\ r < BLUE_THRESHOLD.max_red
                /\ g < BLUE_THRESHOLD.max_green
             \/ /\ IF QuotientEqual(BLUE_THRESHOLD.hsv_hue_min, hsv.h)
                   THEN round.hue
                   ELSE QuotientLess(BLUE_THRESHOLD.hsv_hue_min, hsv.h)
                /\ IF QuotientEqual(hsv.h, BLUE_THRESHOLD.hsv_hue_max)
                   THEN round.hue
                   ELSE QuotientLess(hsv.h, BLUE_THRESHOLD.hsv_hue_max)
                /\ IF QuotientEqual(hsv.s, BLUE_THRESHOLD.hsv_saturation_min)
                   THEN round.saturation
                   ELSE QuotientLess(BLUE_THRESHOLD.hsv_saturation_min, hsv.s)
        ELSE IF target_color = COLORS.WHITE
        THEN r > WHITE_THRESHOLD.min_rgb /\ g > WHITE_THRESHOLD.min_rgb
             /\ b > WHITE_THRESHOLD.min_rgb
        ELSE FALSE

\* channel values on both sides of every threshold, the extremes, and values
\* that put hue or saturation exactly on a threshold: (0, 70, 100) has hue
\* 0.55, (51, 0, 255) has hue 0.7 and (153, 153, 255) has saturation 0.4
ChannelValues ==
    {0, 255}
    \cup {RED_THRESHOLD.max_green - 1, RED_THRESHOLD.max_green}
    \cup {BLUE_THRESHOLD.min_blue - 1, BLUE_THRESHOLD.min_blue,
          BLUE_THRESHOLD.min_blue + 1}
    \cup {RED_THRESHOLD.min_red, RED_THRESHOLD.min_red + 1}
    \cup {WHITE_THRESHOLD.min_rgb, WHITE_THRESHOLD.min_rgb + 1}
    \cup {51, 70, 153}

Pixels == ChannelValues \X ChannelValues \X ChannelValues

\* the colours the rest of the image is filled with
Palette == {COLORS.RED, COLORS.BLUE, COLORS.WHITE, <<0, 0, 0>>}

\* whether a comparison on the pixel is one of equal quotients
HueTie(pixel) ==
    LET hsv == rgb_to_hsv(pixel[1], pixel[2], pixel[3])
    IN  \/ QuotientEqual(BLUE_THRESHOLD.hsv_hue_min, hsv.h)
        \/ QuotientEqual(hsv.h, BLUE_THRESHOLD.hsv_hue_max)

SaturationTie(pixel) ==
    LET hsv == rgb_to_hsv(pixel[1], pixel[2], pixel[3])
    IN  QuotientEqual(hsv.s, BLUE_THRESHOLD.hsv_saturation_min)

\* sum(1 for pixel in column if is_color_close(pixel, target_color))
ColumnCount(x, target_color) ==
    Cardinality({y \in 1..Len(pixels) :
                    is_color_close(pixels[y][x], target_color, rounding)})

\* an image with one pixel of any colour in its corner and one palette
\* colour elsewhere
InitProfile ==
    /\ pc = "count_columns"
    /\ \E h \in 1..MaxPixelHeight, w \in 1..MaxPixelWidth,
          p \in Pixels, q \in Palette :
          /\ pixels = [y \in 1..h |->
                          [x \in 1..w |-> IF y = 1 /\ x = 1 THEN p ELSE q]]
          /\ rounding \in
                [hue : IF HueTie(p) THEN BOOLEAN ELSE {FALSE},
                 saturation : IF SaturationTie(p) THEN BOOLEAN ELSE {FALSE}]
    /\ color_counts = <<>>
    /\ tallest = 0
    /\ IdleExcept("profile")

\* process_image: the column loop and max_height
CountColumns ==
    /\ pc = "count_columns"
    /\ color_counts' =
          [red_counts |-> [x \in 1..Len(pixels[1]) |-> ColumnCount(x, COLORS.RED)],
           blue_counts |-> [x \in 1..Len(pixels[1]) |-> ColumnCount(x, COLORS.BLUE)],
           white_counts |->
               [x \in 1..Len(pixels[1]) |-> ColumnCount(x, COLORS.WHITE)]]
    /\ tallest' =
          SetMax({color_counts'.red_counts[x] : x \in 1..Len(pixels[1])}
                 \cup {color_counts'.blue_counts[x] : x \in 1..Len(pixels[1])}
                 \cup {color_counts'.white_counts[x] : x \in 1..Len(pixels[1])})
    /\ pc' = "counted"
    /\ UNCHANGED <<pixels, rounding>>
    /\ FrameExcept("profile")

NextProfile == CountColumns

SpecProfile == InitProfile /\ [][NextProfile]_vars

\* the colours among RED, BLUE and WHITE that a pixel is classified as
ClassesOf(pixel) ==
    {c \in {COLORS.RED, COLORS.BLUE, COLORS.WHITE} :
        is_color_close(pixel, c, rounding)}

(***************************************************************************)
(* C28: with the configured thresholds no pixel is classified as more than *)
(* one of RED, BLUE and WHITE; hence in every column the red, blue and     *)
(* white profile values sum to at most the image height, and max_height    *)
(* never exceeds the image height.                                         *)
(***************************************************************************)
C28_ClassesDisjoint ==
    pc = "counted" =>
        /\ \A y \in 1..Len(pixels), x \in 1..Len(pixels[1]) :
              Cardinality(ClassesOf(pixels[y][x])) <= 1
        /\ \A x \in 1..Len(pixels[1]) :
              color_counts.red_counts[x] + color_counts.blue_counts[x]
                  + color_counts.white_counts[x] <= Len(pixels)
        /\ tallest <= Len(pixels)

\* a pale blue pixel whose hue is in the BLUE band and whose saturation sits
\* on the threshold, rounded upwards, above a white pixel: every pixel of the
\* column is counted, each once
C28_Witness ==
    /\ pc = "counted"
    /\ Len(pixels) >= 2
    /\ pixels[1][1] = <<153, 153, 255>>
    /\ rounding.saturation
    /\ pixels[2][1] = COLORS.WHITE
    /\ color_counts.blue_counts[1] = 1
    /\ color_counts.white_counts[1] = Len(pixels) - 1
    /\ tallest = Len(pixels) - 1

(***************************************************************************)
(* new_detection.py: PRINT_DEBUG_OUTPUT, a module-level flag that          *)
(* BallDetector.with_debug and enable_debug set and nothing resets.        *)
(* detect_balls is called several times on one grid, by any of the         *)
(* instances, under whatever the flag is at the time.                      *)
(***************************************************************************)
\* a detect_balls whose debug branch returns before the detection
detect_balls_DebugOnly(g, shape, base, debug) ==
    IF debug THEN <<>>
    ELSE LET scaled == calculate_resolution_scaled_params(base, shape)
         IN  FilterCenters(WatershedMarkers(g, shape, scaled), shape, scaled)

\* the centers detect_balls returns under PRINT_DEBUG_OUTPUT = debug: every
\* `if PRINT_DEBUG_OUTPUT:` block only prints values it reads
detect_balls(g, shape, base, debug) ==
    LET scaled == calculate_resolution_scaled_params(base, shape)
    IN  FilterCenters(WatershedMarkers(g, shape, scaled), shape, scaled)

\* profiles with bars of full height or none
DebugProfiles(W) == [0..(W - 1) -> {0, MaxBallCount}]

InitDebug ==
    /\ pc = "debug"
    /\ params = WATERSHED_PARAMS
    /\ image_shape = <<MaxGridHeight, MaxGridWidth>>
    /\ \E c \in DebugProfiles(MaxGridWidth) :
          color_map = GridOfProfile(c, MaxGridHeight, MaxGridWidth)
    /\ scaled_params = <<>>
    /\ markers = <<>>
    /\ centers = <<>>
    /\ debug_output = FALSE
    /\ instances = 1
    /\ printed = FALSE
    /\ results = <<>>
    /\ IdleExcept("debug")

\* BallDetector.with_debug(): sets the flag and constructs an instance
WithDebug ==
    /\ pc = "debug"
    /\ instances < MaxDetectors
    /\ debug_output' = TRUE
    /\ instances' = instances + 1
    /\ UNCHANGED <<pc, printed, results, paramsVars, detectVars>>
    /\ FrameExcept("debug")

\* detector.enable_debug() on any of the instances
EnableDebug ==
    /\ pc = "debug"
    /\ \E d \in 1..instances : debug_output' = TRUE
    /\ UNCHANGED <<pc, instances, printed, results, paramsVars, detectVars>>
    /\ FrameExcept("debug")

\* detector.detect_balls(color_map) on any of the instances
DebugDetect ==
    /\ pc = "debug"
    /\ Len(results) < MaxCalls
    /\ centers' = detect_balls(color_map, image_shape, params, debug_output)
    /\ results' = Append(results, [debug |-> debug_output, centers |-> centers'])
    /\ printed' = debug_output
    /\ UNCHANGED <<pc, debug_output, instances, paramsVars, color_map, markers>>
    /\ FrameExcept("debug")

NextDebug ==
    \/ WithDebug
    \/ EnableDebug
    \/ DebugDetect

SpecDebug == InitDebug /\ [][NextDebug]_vars

\* all calls made so far on the grid returned the same centers
SameCenters ==
    pc = "debug" =>
        \A i, j \in 1..Len(results) : results[i].centers = results[j].centers

TopLabel(m) == SetMax({m[i] : i \in DOMAIN m})

(***************************************************************************)
(* C13: detect_balls on a grid with no foreground pixel (all zero), or on  *)
(* a grid whose marker labels never exceed 1, returns an empty list of     *)
(* centers; the call completes, no step of it raising.                     *)
(***************************************************************************)
C13_EmptyDetection ==
    pc = "detected" =>
        (   \/ \A i \in DOMAIN color_map : color_map[i] = 0
            \/ TopLabel(markers) <= 1
         => centers = <<>>)

\* a grid with foreground in its bottom row only: the watershed leaves no
\* label above 1, and the call returns the empty list
C13_Witness ==
    /\ pc = "detected"
    /\ \E i \in DOMAIN color_map : color_map[i] # 0
    /\ TopLabel(markers) <= 1
    /\ centers = <<>>

\* the foreground of the grid is one 8-connected blob
SingleBlob(fg, W) ==
    /\ fg # {}
    /\ Reach(fg, {SetMin(fg)}, W) = fg

(***************************************************************************)
(* C14: every center detect_balls returns is the centroid of a region of   *)
(* label >= 2 whose area is at least the scaled min_area, and a grid whose *)
(* only blob has fewer than min_area pixels yields no center.              *)
(***************************************************************************)
C14_SmallBlobNoBall ==
    pc = "detected" =>
        /\ \A k \in 1..Len(centers) :
              \E label \in 2..TopLabel(markers) :
                  /\ Cardinality(RegionOf(markers, label)) >= scaled_params.min_area
                  /\ centers[k] = Centroid(RegionOf(markers, label), image_shape[2])
        /\ LET fg == Binary(color_map, scaled_params.binary_threshold)
           IN  SingleBlob(fg, image_shape[2])
               /\ Cardinality(fg) < scaled_params.min_area
               => centers = <<>>

(***************************************************************************)
(* quantize_to_detection.py: the batch loops of ImageProcessor.            *)
(* process_directory and of main.  An entry of the listing is a record:    *)
(*   image   the name ends in .png, .jpg or .jpeg                          *)
(*   colour  the image has pixels of a palette colour (max_height > 0)     *)
(*   fault   the step of its processing in which the environment makes a   *)
(*           call raise an Exception: "none", "scale" (scale_image),       *)
(*           "color_maps" (before the arrays are built, as Image.open),    *)
(*           "save" (after they are built, as np.save), "detect"           *)
(* One action is one pass of the for loop; a further action is the code    *)
(* after the loop, which prints the completion message.                    *)
(***************************************************************************)
Faults == {"none", "scale", "color_maps", "save", "detect"}

Entries ==
    {[image |-> FALSE, colour |-> FALSE, fault |-> "none"]}
    \cup [image : {TRUE}, colour : BOOLEAN, fault : Faults]

Listings == UNION {[1..n -> Entries] : n \in 0..MaxFiles}

\* self.scaler.scale_image(input_path, scaled_path) raises
ScaleRaises(f, scaling) == scaling /\ f.fault = "scale"

\* the try block of process_directory for entry i: whether it raised, what
\* self.red_array holds after it, and whose arrays detect_balls reported from
DirectoryImage(f, i, scaling, arrays) ==
    IF ScaleRaises(f, scaling) \/ f.fault = "color_maps"
    THEN [raised |-> TRUE, red_array |-> arrays, reported |-> 0]
    ELSE IF f.colour /\ f.fault = "save"
    THEN [raised |-> TRUE, red_array |-> i, reported |-> 0]
    ELSE LET held == IF f.colour THEN i ELSE arrays
         IN  IF held = 0 \/ f.fault = "detect"
             THEN [raised |-> TRUE, red_array |-> held, reported |-> 0]
             ELSE [raised |-> FALSE, red_array |-> held, reported |-> held]

\* process_image for entry i: whether it raised, and whose arrays its
\* detections were made in
MainImage(f, i, scaling) ==
    IF \/ ScaleRaises(f, scaling)
       \/ f.fault = "color_maps"
       \/ f.colour /\ f.fault \in {"save", "detect"}
    THEN [raised |-> TRUE, reported |-> 0]
    ELSE [raised |-> FALSE, reported |-> IF f.colour THEN i ELSE 0]

\* the loop with no except clause: an exception leaves it
LoopAfterUncaught(loop, raised) == IF raised THEN "aborted" ELSE loop

\* except Exception as e: print(...): the loop goes on to the next entry
LoopAfter(loop, raised) == loop

InitBatch ==
    /\ pc \in {"process_directory", "main"}
    /\ listing \in Listings
    /\ enable_scaling \in BOOLEAN
    /\ position = 0
    /\ attempted = [i \in 1..Len(listing) |-> 0]
    /\ image_count = 0
    /\ red_array = 0
    /\ reported = [i \in 1..Len(listing) |-> 0]
    /\ IdleExcept("batch")

\* one pass of: for filename in os.listdir(self.input_dir)
ProcessDirectoryStep ==
    /\ pc = "process_directory"
    /\ position < Len(listing)
    /\ LET i == position + 1
           f == listing[i]
           r == DirectoryImage(f, i, enable_scaling, red_array)
       IN  /\ position' = i
           /\ IF f.image
              THEN /\ attempted' = [attempted EXCEPT ![i] = @ + 1]
                   /\ red_array' = r.red_array
                   /\ reported' = [reported EXCEPT ![i] = r.reported]
                   /\ image_count' = IF r.raised THEN image_count ELSE image_count + 1
                   /\ pc' = LoopAfter(pc, r.raised)
              ELSE UNCHANGED <<pc, attempted, red_array, reported, image_count>>
    /\ UNCHANGED <<listing, enable_scaling>>
    /\ FrameExcept("batch")

\* after the loop: print(f"Processing complete! Successfully processed ...")
ProcessDirectoryComplete ==
    /\ pc = "process_directory"
    /\ position = Len(listing)
    /\ pc' = "process_directory_complete"
    /\ UNCHANGED batchVars
    /\ FrameExcept("batch")

\* one pass of: for filename in os.listdir(input_dir)
MainStep ==
    /\ pc = "main"
    /\ position < Len(listing)
    /\ LET i == position + 1
           f == listing[i]
           r == MainImage(f, i, enable_scaling)
       IN  /\ position' = i
           /\ IF f.image
              THEN /\ attempted' = [attempted EXCEPT ![i] = @ + 1]
                   /\ reported' = [reported EXCEPT ![i] = r.reported]
                   /\ pc' = LoopAfter(pc, r.raised)
              ELSE UNCHANGED <<pc, attempted, reported>>
    /\ UNCHANGED <<listing, enable_scaling, image_count, red_array>>
    /\ FrameExcept("batch")

\* after the loop: print(f"\nProcessing complete!")
MainComplete ==
    /\ pc = "main"
    /\ position = Len(listing)
    /\ pc' = "main_complete"
    /\ UNCHANGED batchVars
    /\ FrameExcept("batch")

NextBatch ==
    \/ ProcessDirectoryStep
    \/ ProcessDirectoryComplete
    \/ MainStep
    \/ MainComplete

\* the interpreter runs the loop on: a pass that can be taken is taken
SpecBatch == InitBatch /\ [][NextBatch]_vars /\ WF_vars(NextBatch)

\* the loop is at an entry or past the last one, every image entry the loop
\* has passed was attempted once, and no other entry was attempted
BatchInOrder ==
    /\ pc \in {"process_directory", "main",
               "process_directory_complete", "main_complete"}
    /\ position \in 0..Len(listing)
    /\ pc \in {"process_directory_complete", "main_complete"}
          => position = Len(listing)
    /\ \A i \in 1..Len(listing) :
          attempted[i] = IF listing[i].image /\ i <= position THEN 1 ELSE 0

(***************************************************************************)
(* C17: in the batch loops of main and process_directory an exception      *)
(* raised while one image is processed never ends the batch: every image   *)
(* file of the listing is attempted exactly once, and the loop always      *)
(* reaches its completion message.                                         *)
(***************************************************************************)
C17_BatchCompletes ==
    /\ []BatchInOrder
    /\ <>(pc \in {"process_directory_complete", "main_complete"})

\* a finished batch in which the first image raised and a later one was
\* processed and counted
C17_Witness ==
    /\ pc = "process_directory_complete"
    /\ \E i, j \in 1..Len(listing) :
          /\ i < j
          /\ listing[i].image /\ listing[i].fault = "color_maps"
          /\ attempted[i] = 1
          /\ reported[j] = j
    /\ image_count >= 1

(***************************************************************************)
(* C18: in a batch run by process_directory, the balls reported for an     *)
(* image are detected only in arrays built from that image, never in the   *)
(* arrays of an earlier one, and for an image with no pixel of a palette   *)
(* colour (max_height == 0) no detections are reported.                    *)
(***************************************************************************)
C18_OwnArraysOnly ==
    pc \in {"process_directory", "process_directory_complete"} =>
        \A i \in 1..Len(listing) :
            /\ reported[i] \in {0, i}
            /\ ~listing[i].colour => reported[i] = 0

(***************************************************************************)
(* The components together: any one call, on any of its inputs.            *)
(***************************************************************************)
Init ==
    \/ InitScaler
    \/ InitTape
    \/ InitRegions
    \/ InitInterp
    \/ InitParams
    \/ InitDetect
    \/ InitBatch
    \/ InitMismatch
    \/ InitMedian
    \/ InitSample
    \/ InitShared
    \/ InitPair
    \/ InitDebug
    \/ InitProfile
    \/ InitProcessor
    \/ InitSummary

Next ==
    \/ ScaleImage
    \/ AnalyzeWhiteTape
    \/ ProcessTapeRegions
    \/ DrawTrapezoid
    \/ CalculateScaledParams
    \/ DetectBalls
    \/ ProcessDirectoryStep
    \/ ProcessDirectoryComplete
    \/ MainStep
    \/ MainComplete
    \/ CalculateMedianHeight
    \/ SampleNeighbourhoods
    \/ DetectorCall
    \/ ScaleBoth
    \/ WithDebug
    \/ EnableDebug
    \/ DebugDetect
    \/ CountColumns
    \/ ProcessorStep
    \/ PrintSummary

Spec == Init /\ [][Next]_vars

=============================================================================
